---------------------------- MODULE Spec2Model ----------------------------
(***************************************************************************)
(* A model of the multi-agent samples repository:                          *)
(*   - the artifact store client (agent_utils.S3Client),                   *)
(*   - the LLM client's message normalisation (llm_client.LLMClient),      *)
(*   - the CloudFormation event parser (cfn-event-parser/index.py),        *)
(*   - the agent runtime core and the domain agents' operations,           *)
(*   - the domain agents' Lambda handlers and the public HTTP API.         *)
(* Each part has its own specification over the shared variables.          *)
(***************************************************************************)
EXTENDS Integers, Sequences, FiniteSets, TLC

VARIABLES
    now,        \* the reading of the clock: the month datetime.now() falls in
    store,      \* the artifact bucket: a set of [key, body] objects, one per key
    last,       \* the last call on the artifact store and what it returned
    llm,        \* one _invoke_via_bedrock call: its messages and what it sent
    cfn,        \* one run of the CloudFormation event parser
    self,       \* the agent object: its type, bound handles, state and memory
    stateDb,    \* the agent state table: the items put, in order
    eventBus,   \* the event bus: the events put, in order
    queue,      \* the communication queue: the messages sent, in order
    ret,        \* the last call of an agent operation and what came of it
    writers,    \* the concurrent upload_artifact calls: where each is and what it holds
    table,      \* the agent state table by key: one item per (agentId, stateId)
    response,   \* one invocation of a domain agent's Lambda handler: the event and the response
    http,       \* one request to the public HTTP API: the event and the response
    proxy       \* one invocation of the LLM proxy handler: the event and what came of it

s3vars == <<now, store, last>>
llmvars == <<llm>>
cfnvars == <<cfn>>
agentvars == <<self, stateDb, eventBus, queue, ret>>
racevars == <<writers>>
statevars == <<table>>
handlervars == <<response>>
apivars == <<http>>
proxyvars == <<proxy>>

vars == <<now, store, last, llm, cfn, self, stateDb, eventBus, queue, ret, writers, table, response, http, proxy>>

(***************************************************************************)
(* Bounds of the model.                                                    *)
(***************************************************************************)
MaxMonth == 2
MaxSeq == 2
MaxObjects == 2

Months == 1..MaxMonth

None == "None"

(***************************************************************************)
(* Values.  A timestamp argument is a month (a parsable ISO string),       *)
(* absent, or unparsable.  An artifact id is its text split at "_": a      *)
(* sequence of segments, so that "b_a" is <<"b", "a">>.  The ids of the    *)
(* model hold no segment that is a number.                                 *)
(***************************************************************************)
Iso(m) == [kind |-> "iso", month |-> m]
Absent == [kind |-> "absent", month |-> 0]
Unparsable == [kind |-> "unparsable", month |-> 0]
Timestamps == {Iso(m) : m \in Months} \cup {Absent, Unparsable}
Projects == {"p1", "p2"}
StoreAgentTypes == {"product_manager"}
StoreArtifactTypes == {"analysis"}
ArtifactIds == {<<"a">>, <<"b", "a">>}
Payloads == {"d1", "d2"}

\* The order of the characters that segments are made of.
CharRank == [a |-> 1, b |-> 2, u1 |-> 3, u2 |-> 4, u3 |-> 5, u4 |-> 6, u5 |-> 7, u6 |-> 8]

NoSeq == 0

\* A document: its payload and its sequence_number field (NoSeq: no such field).
Doc(p, n) == [payload |-> p, sequence_number |-> n]

InputDocs == {Doc(p, NoSeq) : p \in Payloads}

(***************************************************************************)
(* json.dumps / json.loads on string-keyed documents of JSON values.       *)
(***************************************************************************)
JsonDumps(doc) == <<"json", doc.payload, doc.sequence_number>>

JsonLoads(text) == Doc(text[2], text[3])

(***************************************************************************)
(* Keys.                                                                   *)
(***************************************************************************)
Key(ym, project, agent, atype, seq, aid) ==
    [ym |-> ym, project |-> project, agent |-> agent, atype |-> atype,
     seq |-> seq, aid |-> aid]

Prefix(ym, project, agent, atype) ==
    [ym |-> ym, project |-> project, agent |-> agent, atype |-> atype]

PrefixOf(k) == Prefix(k.ym, k.project, k.agent, k.atype)

NoStoreKey == Key(0, "", "", "", 0, <<>>)

\* list_objects_v2(Prefix=...): the objects under a prefix.
ListObjects(s, pfx) == {o \in s : PrefixOf(o.key) = pfx}

\* The month a timestamp argument stands for.
TsMonth(ts, n) == IF ts.kind = "iso" THEN ts.month ELSE n

SetMax(S) == CHOOSE x \in S : \A y \in S : y <= x

\* The highest sequence number under a prefix, 0 when it holds no object.
MaxSeqUnder(s, pfx) ==
    LET seqs == {o.key.seq : o \in ListObjects(s, pfx)}
    IN  IF seqs = {} THEN 0 ELSE SetMax(seqs)

\* S3Client._get_artifact_sequence_number: it is not given the timestamp and
\* scans the prefix of the current month.
GetArtifactSequenceNumber(s, n, project, agent, atype, listOk) ==
    IF listOk THEN MaxSeqUnder(s, Prefix(n, project, agent, atype)) + 1
    ELSE 1

\* A path that takes its month from the clock, whatever the timestamp.
FormatPathOfClock(project, agent, atype, aid, ts, seq, n) ==
    Key(n, project, agent, atype, IF seq < 1 THEN 1 ELSE seq, aid)

\* A key that leaves the artifact id out of the filename.
FormatPathWithoutId(project, agent, atype, aid, ts, seq, n) ==
    Key(TsMonth(ts, n), project, agent, atype, IF seq < 1 THEN 1 ELSE seq, <<>>)

\* S3Client._format_path.
FormatPath(project, agent, atype, aid, ts, seq, n) ==
    Key(TsMonth(ts, n), project, agent, atype, IF seq < 1 THEN 1 ELSE seq, aid)

\* A put that leaves the bucket alone where the slot of the key is taken.
PutUnlessSlotTaken(s, k, body) ==
    IF \E o \in s : PrefixOf(o.key) = PrefixOf(k) /\ o.key.seq = k.seq THEN s
    ELSE {o \in s : o.key # k} \cup {[key |-> k, body |-> body]}

\* put_object: the object under a key is replaced.
PutObject(s, k, body) == {o \in s : o.key # k} \cup {[key |-> k, body |-> body]}

HasKey(s, k) == \E o \in s : o.key = k

BodyAt(s, k) == (CHOOSE o \in s : o.key = k).body


\* Segment sequences in the order of the texts they stand for: "." sorts
\* before "_", so a proper prefix sorts first.
RECURSIVE SegsLess(_, _)
SegsLess(x, y) ==
    IF x = <<>> THEN y # <<>>
    ELSE IF y = <<>> THEN FALSE
    ELSE IF Head(x) = Head(y) THEN SegsLess(Tail(x), Tail(y))
    ELSE CharRank[Head(x)] < CharRank[Head(y)]

IsSuffix(x, y) ==
    /\ Len(x) <= Len(y)
    /\ SubSeq(y, Len(y) - Len(x) + 1, Len(y)) = x

\* f"_{artifact_id}.json" in filename, for the filename seq_{n}_{aid}.json.
FilenameMatches(aid, k) == IsSuffix(aid, k.aid)

\* (seq_num, key) tuples in Python's order, within one prefix.
TupleLess(k1, k2) ==
    \/ k1.seq < k2.seq
    \/ k1.seq = k2.seq /\ SegsLess(k1.aid, k2.aid)

\* matching_keys.sort(reverse=True)[0]
FirstOfReverseSorted(keys) == CHOOSE k \in keys : \A j \in keys : j = k \/ TupleLess(j, k)

\* S3Client.download_json: the decoded body, or the failure.
DownloadJson(s, k, getOk) ==
    IF getOk /\ HasKey(s, k)
    THEN [status |-> "ok", doc |-> JsonLoads(BodyAt(s, k)), key |-> k]
    ELSE [status |-> "raised", doc |-> Doc(None, NoSeq), key |-> k]

\* S3Client.download_artifact.
DownloadArtifact(s, n, project, agent, atype, aid, ts, listOk, getOk) ==
    LET pfx == Prefix(TsMonth(ts, n), project, agent, atype)
        matching == {o.key : o \in {x \in ListObjects(s, pfx) : FilenameMatches(aid, x.key)}}
    IN  IF listOk /\ matching # {}
        THEN DownloadJson(s, FirstOfReverseSorted(matching), getOk)
        ELSE DownloadJson(s, FormatPath(project, agent, atype, aid, ts, 1, n), getOk)

\* S3Client.upload_artifact: the sequence number, the key, the stored body.
UploadPlan(s, n, data, project, agent, atype, aid, ts, listOk) ==
    LET seq == GetArtifactSequenceNumber(s, n, project, agent, atype, listOk)
        key == FormatPath(project, agent, atype, aid, ts, seq, n)
    IN  [seq |-> seq, key |-> key,
         body |-> JsonDumps([data EXCEPT !.sequence_number = seq])]

(***************************************************************************)
(* The artifact store under sequential callers.  The calls of this          *)
(* specification reach the bucket (put_object and get_object answer);      *)
(* listing may be refused.                                                 *)
(***************************************************************************)
NoCall == [op |-> "none"]

\* One upload_artifact call; list_objects_v2 and put_object may fail.
Upload(data, project, agent, atype, aid, ts, listOk, putOk) ==
    LET plan == UploadPlan(store, now, data, project, agent, atype, aid, ts, listOk)
        after == IF putOk THEN PutObject(store, plan.key, plan.body) ELSE store
    IN  /\ plan.seq <= MaxSeq
        /\ Cardinality(after) <= MaxObjects
        /\ store' = after
        /\ last' = [op |-> "upload_artifact",
                    status |-> IF putOk THEN "ok" ELSE "raised",
                    data |-> data, project |-> project, agent |-> agent,
                    atype |-> atype, aid |-> aid, ts |-> ts, listOk |-> listOk,
                    sequence_number |-> plan.seq, s3_key |-> plan.key]
        /\ UNCHANGED <<now, llmvars, cfnvars, agentvars, racevars, statevars, handlervars, apivars, proxyvars>>

\* One download_artifact call; list_objects_v2 and get_object may fail.
Download(project, agent, atype, aid, ts, listOk, getOk) ==
    LET r == DownloadArtifact(store, now, project, agent, atype, aid, ts, listOk, getOk)
    IN  /\ last' = [op |-> "download_artifact", status |-> r.status,
                    doc |-> r.doc, key |-> r.key,
                    project |-> project, agent |-> agent, atype |-> atype,
                    aid |-> aid, ts |-> ts, listOk |-> listOk]
        /\ UNCHANGED <<now, store, llmvars, cfnvars, agentvars, racevars, statevars, handlervars, apivars, proxyvars>>

\* The sequence numbers a caller of _format_path may pass.
SequenceNumbers == -1..MaxSeq

\* One _format_path call.
Format(project, agent, atype, aid, ts, seq) ==
    /\ last' = [op |-> "_format_path", project |-> project, agent |-> agent,
                atype |-> atype, aid |-> aid, ts |-> ts, seq |-> seq,
                key |-> FormatPath(project, agent, atype, aid, ts, seq, now)]
    /\ UNCHANGED <<now, store, llmvars, cfnvars, agentvars, racevars, statevars, handlervars, apivars, proxyvars>>

\* The clock passes into the next month.
MonthPasses ==
    /\ now < MaxMonth
    /\ now' = now + 1
    /\ last' = NoCall
    /\ UNCHANGED <<store, llmvars, cfnvars, agentvars, racevars, statevars, handlervars, apivars, proxyvars>>

(***************************************************************************)
(* The LLM client: LLMClient._invoke_via_bedrock builds the message list   *)
(* it sends.  A content is a sequence of pieces of text.                   *)
(***************************************************************************)
MaxMsgs == 4

Roles == {"system", "user", "assistant", "tool"}
Contents == {<<"X">>, <<"Y">>}
Msg(role, content) == [role |-> role, content |-> content]
Messages == {Msg(r, c) : r \in Roles, c \in Contents}

RECURSIVE SeqsUpTo(_, _)
SeqsUpTo(S, n) ==
    IF n = 0 THEN {<<>>}
    ELSE LET shorter == SeqsUpTo(S, n - 1)
         IN  shorter \cup {Append(q, x) : q \in {r \in shorter : Len(r) = n - 1}, x \in S}

BlankLine == "\n\n"
BridgeToUser == Msg("assistant", <<"I understand. Please continue.">>)
BridgeToAssistant == Msg("user", <<"Please continue.">>)

\* for msg in messages: if role == 'system': system_content += content + "\n\n"
RECURSIVE SystemContent(_)
SystemContent(msgs) ==
    IF msgs = <<>> THEN <<>>
    ELSE (IF Head(msgs).role = "system" THEN Head(msgs).content \o <<BlankLine>> ELSE <<>>)
         \o SystemContent(Tail(msgs))

HasSystem(msgs) == \E i \in 1..Len(msgs) : msgs[i].role = "system"

\* The message the i-th input message (i counted from 0) adds, if any.
ValidFrom(msgs, i) ==
    LET msg == msgs[i + 1]
    IN  IF msg.role = "system" THEN <<>>
        ELSE IF msg.role = "user"
             THEN IF i = 0 /\ HasSystem(msgs)
                  THEN <<Msg("user", SystemContent(msgs) \o <<BlankLine>> \o msg.content)>>
                  ELSE <<msg>>
        ELSE IF msg.role = "assistant" THEN <<msg>>
        ELSE <<>>

\* The first loop over enumerate(messages), from index i on.
RECURSIVE BuildValid(_, _)
BuildValid(msgs, i) ==
    IF i >= Len(msgs) THEN <<>>
    ELSE ValidFrom(msgs, i) \o BuildValid(msgs, i + 1)

\* A list assignment valid_messages[i] = m in place of the insertion.
AssignAt(v, i, m) == [v EXCEPT ![i + 1] = m]

\* valid_messages.insert(i, m), i counted from 0.
InsertAt(v, i, m) == SubSeq(v, 1, i) \o <<m>> \o SubSeq(v, i + 1, Len(v))

\* for i in range(1, len(valid_messages)): the range is fixed when the loop
\* starts (stop), the list grows as bridges are inserted.  i counts from 0.
RECURSIVE Alternate(_, _, _)
Alternate(v, i, stop) ==
    IF i >= stop THEN v
    ELSE IF v[i + 1].role = v[i].role
         THEN IF i = Len(v) - 1 /\ v[i + 1].role = "user"
              THEN Alternate(v, i + 1, stop)
              ELSE IF v[i + 1].role = "user"
                   THEN Alternate(InsertAt(v, i, BridgeToUser), i + 1, stop)
                   ELSE Alternate(InsertAt(v, i, BridgeToAssistant), i + 1, stop)
         ELSE Alternate(v, i + 1, stop)

\* The messages of the request body, or the ValueError.
InvokeViaBedrock(msgs) ==
    LET valid == BuildValid(msgs, 0)
    IN  IF valid = <<>>
        THEN [status |-> "ValueError", messages |-> <<>>]
        ELSE [status |-> "sent", messages |-> Alternate(valid, 1, Len(valid))]

LLMIdle == [status |-> "idle", input |-> <<>>, messages |-> <<>>]

\* invoke_llm(messages): the request is built and sent.
InvokeLLM ==
    /\ llm.status = "called"
    /\ llm' = InvokeViaBedrock(llm.input) @@ [input |-> llm.input]
    /\ UNCHANGED <<s3vars, cfnvars, agentvars, racevars, statevars, handlervars, apivars, proxyvars>>

(***************************************************************************)
(* The CloudFormation event parser: handler(event, context) of             *)
(* cfn-event-parser, with the three CloudFormation calls it makes.         *)
(***************************************************************************)
MaxEvents == 2

SizeLimit == 50000

Empty == ""
FailureStatuses == {"CREATE_FAILED", "UPDATE_FAILED", "DELETE_FAILED"}
ResourceStatuses == FailureStatuses \cup {"CREATE_COMPLETE"}

\* event['detail']: a field that is missing or empty reads as ''.
Details ==
    [stackId : {Empty, "stack-id"}, stackName : {Empty, "event-stack"},
     status : {Empty, "ROLLBACK_IN_PROGRESS"}, statusReason : {Empty},
     logicalResourceId : {Empty, "EventResource"}, resourceType : {Empty, "EventType"}]
    \cup
    [stackId : {Empty, "stack-id"}, stackName : {Empty, "event-stack"},
     status : {"ROLLBACK_IN_PROGRESS"}, statusReason : {"event reason"},
     logicalResourceId : {Empty, "EventResource"}, resourceType : {Empty, "EventType"}]

\* describe_stacks: it raises, or answers with a list of stacks.
StackAnswers ==
    {[kind |-> "raise", Stacks |-> <<>>],
     [kind |-> "ok", Stacks |-> <<>>],
     [kind |-> "ok", Stacks |-> <<[StackName |-> None]>>],
     [kind |-> "ok", Stacks |-> <<[StackName |-> "api-stack"]>>]}

\* A TemplateBody: a string (a YAML template, or JSON text) or a dict (boto3
\* parses a JSON template); size is the length of its serialized text.
Body(form, size, parses, resources) ==
    [form |-> form, size |-> size, parses |-> parses, Resources |-> resources]

EmptyDictSize == 2

TemplateBodies ==
    {Body("str", 0, FALSE, {}),
     Body("str", SizeLimit, TRUE, {"R1"}),
     Body("str", SizeLimit + 1, FALSE, {}),
     Body("str", SizeLimit + 1, TRUE, {}),
     Body("str", SizeLimit + 1, TRUE, {"R1"}),
     Body("dict", EmptyDictSize, TRUE, {}),
     Body("dict", SizeLimit, TRUE, {"R1"}),
     Body("dict", SizeLimit + 1, TRUE, {"R1"})}

NoBody == Body(None, 0, FALSE, {})

\* get_template: it raises, answers without TemplateBody, or with one.
TemplateAnswers ==
    {[kind |-> "raise", TemplateBody |-> NoBody], [kind |-> "ok", TemplateBody |-> NoBody]}
    \cup {[kind |-> "ok", TemplateBody |-> b] : b \in TemplateBodies}

\* One entry of the stack's history; every entry names the stack it is of.
StackEvent(status, lid, rtype, reason) ==
    [StackName |-> "history-stack", ResourceStatus |-> status, LogicalResourceId |-> lid,
     ResourceType |-> rtype, ResourceStatusReason |-> reason]

StackEvents ==
    {StackEvent(st, f[1], f[2], f[3]) :
        st \in {"CREATE_COMPLETE", "CREATE_FAILED"},
        f \in {<<"R1", "T1", "why1">>, <<"R2", "T2", "why2">>, <<None, None, None>>}}
    \cup {StackEvent(st, "R1", "T1", "why1") : st \in ResourceStatuses}

\* describe_stack_events: it raises, answers without StackEvents, or with a list.
EventAnswers ==
    {[kind |-> "raise", StackEvents |-> <<>>], [kind |-> "nokey", StackEvents |-> <<>>]}
    \cup {[kind |-> "ok", StackEvents |-> es] : es \in SeqsUpTo(StackEvents, MaxEvents)}

\* d.get(key, default)
Get(value, default) == IF value = None THEN default ELSE value

\* if template_body: an empty string and an empty dict are false.
Truthy(body) ==
    /\ body.form # None
    /\ IF body.form = "str" THEN body.size > 0 ELSE body.size > EmptyDictSize

HasFailed(es) == \E i \in 1..Len(es) : es[i].ResourceStatus \in FailureStatuses

LastFailed(es) ==
    es[CHOOSE i \in 1..Len(es) :
          /\ es[i].ResourceStatus \in FailureStatuses
          /\ \A j \in (i + 1)..Len(es) : es[j].ResourceStatus \notin FailureStatuses]

\* The event the loop over StackEvents breaks at.
FirstFailed(es) ==
    es[CHOOSE i \in 1..Len(es) :
          /\ es[i].ResourceStatus \in FailureStatuses
          /\ \A j \in 1..(i - 1) : es[j].ResourceStatus \notin FailureStatuses]

NoFields == <<>>

Calls(stacks, template, events) ==
    [describe_stacks |-> stacks, get_template |-> template, describe_stack_events |-> events]

\* An error payload that forgets the stack's name.
ErrorResultUnnamed(message, stackId, stackName) ==
    [error |-> message, stackId |-> stackId, stackName |-> Empty, timestamp |-> "now"]

ErrorResult(message, stackId, stackName) ==
    [error |-> message, stackId |-> stackId, stackName |-> stackName, timestamp |-> "now"]

\* The template part of the result, lines 82-100.
TemplateFields(body, logicalResourceId) ==
    IF ~Truthy(body) THEN NoFields
    ELSE IF body.form = "str" /\ body.size > SizeLimit
         THEN [templateSummary |-> "Template retrieved but too large to include in response",
               hasTemplate |-> TRUE]
              @@ (IF body.parses
                  THEN [resourcesCount |-> Cardinality(body.Resources)]
                       @@ (IF logicalResourceId # Empty /\ logicalResourceId \in body.Resources
                           THEN [failedResourceDefinition |-> <<"Resources", logicalResourceId>>]
                           ELSE NoFields)
                  ELSE NoFields)
         ELSE [template |-> body]

ParsedResult(stackId, stackName, status, statusReason, logicalResourceId, resourceType, body) ==
    [stackId |-> stackId, stackName |-> stackName, status |-> status,
     statusReason |-> statusReason, logicalResourceId |-> logicalResourceId,
     resourceType |-> resourceType, timestamp |-> "now"]
    @@ TemplateFields(body, logicalResourceId)

\* handler(event, context): what it returns and the calls it made.
Handler(d, api) ==
    IF d.stackId = Empty
    THEN [result |-> ParsedResult(d.stackId, d.stackName, d.status, d.statusReason,
                                  d.logicalResourceId, d.resourceType, NoBody),
          calls |-> Calls(0, 0, 0)]
    ELSE IF api.stacks.kind = "raise"
    THEN [result |-> ErrorResult("describe_stacks failed", d.stackId, d.stackName),
          calls |-> Calls(1, 0, 0)]
    ELSE
      LET stack_name == IF Len(api.stacks.Stacks) > 0
                        THEN Get(api.stacks.Stacks[1].StackName, d.stackName)
                        ELSE d.stackName
          template_body == IF api.template.kind = "ok" THEN api.template.TemplateBody
                           ELSE NoBody
          asks == stack_name = Empty \/ d.logicalResourceId = Empty \/ d.resourceType = Empty
          found == asks /\ api.events.kind = "ok" /\ HasFailed(api.events.StackEvents)
          ev == FirstFailed(api.events.StackEvents)
      IN  IF asks /\ api.events.kind = "raise"
          THEN [result |-> ErrorResult("describe_stack_events failed", d.stackId, stack_name),
                calls |-> Calls(1, 1, 1)]
          ELSE [result |->
                  ParsedResult(d.stackId, stack_name, d.status,
                     IF found THEN Get(ev.ResourceStatusReason, d.statusReason)
                              ELSE d.statusReason,
                     IF found THEN Get(ev.LogicalResourceId, d.logicalResourceId)
                              ELSE d.logicalResourceId,
                     IF found THEN Get(ev.ResourceType, d.resourceType)
                              ELSE d.resourceType,
                     template_body),
                calls |-> Calls(1, 1, IF asks THEN 1 ELSE 0)]

Apis == [stacks : StackAnswers, template : TemplateAnswers, events : EventAnswers]

CfnIdle == [status |-> "idle"]

(***************************************************************************)
(* The agents: the Agent base class and the eight domain agents.  One      *)
(* agent object lives through a behaviour; its operations are called       *)
(* through process(input_data) or directly.                                *)
(***************************************************************************)
MaxArtifacts == 1

Handles == {"state_db", "artifacts", "queue", "events"}

\* Which handles the constructor binds: all of them, or all but one.
Configurations == {Handles} \cup {Handles \ {h} : h \in Handles}

Required(field, message) == [field |-> field, message |-> message]

\* A prior artifact an operation downloads; failure is None when the
\* operation goes on without it.
Load(field, agent, atype, failure) ==
    [field |-> field, agent |-> agent, atype |-> atype, failure |-> failure]

Operation(agent, name, required, idKey, idDefault, loads, atype, resave, state, event, sends, guarded) ==
    [agent |-> agent, name |-> name, required |-> required, idKey |-> idKey,
     idDefault |-> idDefault, loads |-> loads, atype |-> atype, resave |-> resave,
     state |-> state, event |-> event, sends |-> sends, guarded |-> guarded]

Processes == {
    [agent |-> "product_manager", default |-> "analyze_requirement", wrapped |-> TRUE],
    [agent |-> "architect", default |-> "create_architecture", wrapped |-> FALSE],
    [agent |-> "engineer", default |-> "implement_code", wrapped |-> TRUE],
    [agent |-> "cloud_architect", default |-> "design_cloud_architecture", wrapped |-> TRUE],
    [agent |-> "serverless_architect", default |-> "design_serverless_architecture", wrapped |-> TRUE],
    [agent |-> "property_target", default |-> "set_target_properties", wrapped |-> TRUE],
    [agent |-> "inverse_design", default |-> "design_materials", wrapped |-> TRUE],
    [agent |-> "experiment_planning", default |-> "create_experiment_plan", wrapped |-> TRUE]}

Operations == {
    Operation("product_manager", "analyze_requirement",
        <<Required("requirement", "Requirement is required")>>, "project_id", "uuid",
        <<>>, "analysis", FALSE, "analysis_completed", "RequirementAnalysisCompleted", <<>>, TRUE),
    Operation("product_manager", "create_user_stories",
        <<Required("requirement", "Requirement is required")>>, "project_id", "uuid",
        <<Load("analysis_id", "product_manager", "analysis", None)>>, "user_stories", TRUE, "user_stories_created", "UserStoriesCreated", <<"architect">>, FALSE),
    Operation("product_manager", "create_competitive_analysis",
        <<Required("requirement", "Requirement is required")>>, "project_id", "uuid",
        <<>>, "competitive_analysis", FALSE, "competitive_analysis_created", "CompetitiveAnalysisCreated", <<>>, FALSE),
    Operation("product_manager", "create_product_requirement_doc",
        <<Required("requirement", "Requirement is required")>>, "project_id", "uuid",
        <<Load("stories_id", "product_manager", "user_stories", None), Load("competitive_analysis_id", "product_manager", "competitive_analysis", None)>>, "prd", FALSE, "prd_created", "ProductRequirementDocCreated", <<"architect", "project_manager">>, FALSE),
    Operation("architect", "create_architecture",
        <<Required("requirement", "Requirement is required")>>, "project_id", "uuid",
        <<Load("prd_id", "product_manager", "prd", None)>>, "architecture", FALSE, "architecture_created", "ArchitectureCreated", <<"engineer">>, FALSE),
    Operation("architect", "create_class_diagram",
        <<Required("architecture_id", "Architecture ID is required"), Required("project_id", "Project ID is required")>>, "project_id", "empty",
        <<Load("architecture_id", "architect", "architecture", "Failed to load architecture: ")>>, "class_diagram", FALSE, "class_diagram_created", None, <<>>, FALSE),
    Operation("architect", "create_sequence_diagram",
        <<Required("architecture_id", "Architecture ID is required"), Required("use_case", "Use case is required"), Required("project_id", "Project ID is required")>>, "project_id", "empty",
        <<Load("architecture_id", "architect", "architecture", "Failed to load architecture: ")>>, "sequence_diagram", FALSE, "sequence_diagram_created", None, <<>>, FALSE),
    Operation("architect", "create_api_design",
        <<Required("architecture_id", "Architecture ID is required"), Required("project_id", "Project ID is required")>>, "project_id", "empty",
        <<Load("architecture_id", "architect", "architecture", "Failed to load architecture: ")>>, "api_design", FALSE, "api_design_created", None, <<>>, FALSE),
    Operation("engineer", "implement_code",
        <<Required("requirement", "Requirement is required")>>, "project_id", "uuid",
        <<Load("prd_id", "product_manager", "prd", None), Load("architecture_id", "architect", "architecture", None)>>, "implementation", FALSE, "code_implemented", "CodeImplemented", <<>>, FALSE),
    Operation("engineer", "review_code",
        <<Required("implementation_id", "Implementation ID is required"), Required("project_id", "Project ID is required")>>, "project_id", "empty",
        <<Load("implementation_id", "engineer", "implementation", "Failed to load implementation: ")>>, "review", FALSE, "code_reviewed", "CodeReviewed", <<>>, FALSE),
    Operation("engineer", "fix_bugs",
        <<Required("implementation_id", "Implementation ID is required"), Required("project_id", "Project ID is required")>>, "project_id", "empty",
        <<Load("implementation_id", "engineer", "implementation", "Failed to load implementation: "), Load("review_id", "engineer", "review", None)>>, "fixed_implementation", FALSE, "bugs_fixed", "BugsFixed", <<>>, FALSE),
    Operation("cloud_architect", "design_cloud_architecture",
        <<Required("requirement", "Requirement is required")>>, "project_id", "uuid",
        <<>>, "cloud_architecture", FALSE, "cloud_architecture_created", "CloudArchitectureCreated", <<>>, FALSE),
    Operation("cloud_architect", "evaluate_architecture",
        <<Required("architecture_id", "Architecture ID is required"), Required("project_id", "Project ID is required")>>, "project_id", "empty",
        <<Load("architecture_id", "cloud_architect", "cloud_architecture", "Failed to load cloud architecture: ")>>, "architecture_evaluation", FALSE, "architecture_evaluated", "ArchitectureEvaluationCompleted", <<>>, FALSE),
    Operation("cloud_architect", "create_infrastructure_diagram",
        <<Required("architecture_id", "Architecture ID is required"), Required("project_id", "Project ID is required")>>, "project_id", "empty",
        <<Load("architecture_id", "cloud_architect", "cloud_architecture", "Failed to load cloud architecture: ")>>, "infrastructure_diagram", FALSE, "infrastructure_diagram_created", None, <<>>, FALSE),
    Operation("cloud_architect", "optimize_cost",
        <<Required("architecture_id", "Architecture ID is required"), Required("project_id", "Project ID is required")>>, "project_id", "empty",
        <<Load("architecture_id", "cloud_architect", "cloud_architecture", "Failed to load cloud architecture: ")>>, "cost_optimization", FALSE, "cost_optimization_completed", None, <<>>, FALSE),
    Operation("cloud_architect", "design_disaster_recovery",
        <<Required("architecture_id", "Architecture ID is required"), Required("project_id", "Project ID is required")>>, "project_id", "empty",
        <<Load("architecture_id", "cloud_architect", "cloud_architecture", "Failed to load cloud architecture: ")>>, "disaster_recovery", FALSE, "disaster_recovery_designed", None, <<>>, FALSE),
    Operation("cloud_architect", "analyze_cfn_failure",
        <<Required("stackId", "Stack ID is required"), Required("stackName", "Stack Name is required")>>, "project_id", "stackId",
        <<>>, "cfn_failure_analysis", FALSE, "cfn_failure_analyzed", "CfnFailureAnalysisCompleted", <<>>, FALSE),
    Operation("serverless_architect", "design_serverless_architecture",
        <<Required("requirement", "Requirement is required")>>, "project_id", "uuid",
        <<>>, "serverless_architecture", FALSE, "serverless_architecture_created", "ServerlessArchitectureCreated", <<>>, FALSE),
    Operation("serverless_architect", "design_event_driven_architecture",
        <<Required("requirement", "Requirement is required")>>, "project_id", "uuid",
        <<>>, "event_architecture", FALSE, "event_architecture_created", "EventDrivenArchitectureCreated", <<>>, FALSE),
    Operation("serverless_architect", "design_api_gateway",
        <<Required("requirement", "Requirement is required")>>, "project_id", "uuid",
        <<>>, "api_design", FALSE, "api_design_created", "ApiGatewayDesignCreated", <<>>, FALSE),
    Operation("serverless_architect", "optimize_lambda_functions",
        <<Required("function_code", "Function code is required"), Required("runtime", "Runtime is required")>>, "project_id", "uuid",
        <<>>, "lambda_optimization", FALSE, "lambda_optimization_created", None, <<>>, FALSE),
    Operation("serverless_architect", "design_step_functions_workflow",
        <<Required("requirement", "Requirement is required")>>, "project_id", "uuid",
        <<>>, "step_functions_workflow", FALSE, "step_functions_workflow_created", "StepFunctionsWorkflowCreated", <<>>, FALSE),
    Operation("property_target", "set_target_properties",
        <<Required("requirements", "Requirements are required")>>, "session_id", "uuid",
        <<>>, "target_properties", FALSE, None, "TargetPropertiesSet", <<>>, TRUE),
    Operation("property_target", "analyze_tradeoffs",
        <<Required("target_properties", "Target properties are required")>>, "session_id", "uuid",
        <<>>, "tradeoff_analysis", FALSE, None, None, <<>>, TRUE),
    Operation("property_target", "validate_targets",
        <<Required("target_properties", "Target properties are required")>>, "session_id", "uuid",
        <<>>, "validation_result", FALSE, None, None, <<>>, TRUE),
    Operation("inverse_design", "design_materials",
        <<Required("target_properties", "Target properties are required")>>, "session_id", "uuid",
        <<>>, "candidate_materials", FALSE, None, "MaterialsDesigned", <<>>, TRUE),
    Operation("inverse_design", "rank_candidates",
        <<Required("candidate_materials", "Candidate materials are required")>>, "session_id", "uuid",
        <<>>, "ranked_materials", FALSE, None, None, <<>>, TRUE),
    Operation("inverse_design", "evaluate_feasibility",
        <<Required("material", "Material is required")>>, "session_id", "uuid",
        <<>>, "feasibility_evaluation", FALSE, None, None, <<>>, TRUE),
    Operation("experiment_planning", "create_experiment_plan",
        <<Required("materials", "Materials are required"), Required("target_properties", "Target properties are required")>>, "session_id", "uuid",
        <<>>, "experiment_plan", FALSE, None, "ExperimentPlanCreated", <<>>, TRUE),
    Operation("experiment_planning", "optimize_conditions",
        <<Required("experiment", "Experiment is required")>>, "session_id", "uuid",
        <<>>, "optimized_conditions", FALSE, None, None, <<>>, TRUE),
    Operation("experiment_planning", "estimate_resources",
        <<Required("experiment_plan", "Experiment plan is required")>>, "session_id", "uuid",
        <<>>, "resource_estimate", FALSE, None, None, <<>>, TRUE)}

\* No operation: what process finds for a type it does not know.
NoOperation == Operation(None, None, <<>>, None, None, <<>>, None, FALSE, None, None, <<>>, FALSE)

AgentTypes == {p.agent : p \in Processes}
ProcessOf(a) == CHOOSE p \in Processes : p.agent = a
OpsOf(a) == {o \in Operations : o.agent = a}
OpNamed(a, name) == CHOOSE o \in OpsOf(a) : o.name = name
OpNames(a) == {o.name : o \in OpsOf(a)}

Range(q) == {q[i] : i \in 1..Len(q)}

\* The input fields an operation reads that decide what it does.
FieldsOf(op) ==
    {r.field : r \in Range(op.required)} \cup {op.idKey} \cup {l.field : l \in Range(op.loads)}

UnknownType == "unknown_type"
SuppliedProject == "p1"
SuppliedStack == "stack-id"
UuidNames == <<"u1", "u2", "u3", "u4", "u5", "u6">>

UsedNames(s) == {o.key.project : o \in s} \cup {o.key.aid[1] : o \in s}

\* uuid.uuid4(): the k-th name that no stored key carries.
RECURSIVE Uuid4(_, _, _)
Uuid4(s, k, i) ==
    IF UuidNames[i] \in UsedNames(s) THEN Uuid4(s, k, i + 1)
    ELSE IF k = 1 THEN UuidNames[i]
    ELSE Uuid4(s, k - 1, i + 1)

\* The ids a caller can name: those of the stored artifacts and one of none.
KnownIds(s) == {o.key.aid : o \in s} \cup {<<"a">>}

LoadFields(op) == {l.field : l \in Range(op.loads)}

\* The inputs of a call: which fields it gives, and the artifact id it names
\* where it gives one.  The timestamp is left to its default, the time of
\* the call.
Inputs(op, s) ==
    {in \in [given : SUBSET FieldsOf(op), prior : KnownIds(s), project : {SuppliedProject}] :
        in.given \cap LoadFields(op) = {} => in.prior = <<"a">>}

TimestampOf(in, n) == Iso(n)

\* The calls into AWS that may raise.
FailPoints == {"none", "invoke_model", "put_object", "put_item", "put_events", "send_message"}

NoKey == Key(0, Empty, Empty, Empty, 0, <<>>)

\* A validation that lets every input through.
NoneMissing(required, i, given) == None

\* The message of the first required field that is missing, or None.
RECURSIVE FirstMissing(_, _, _)
FirstMissing(required, i, given) ==
    IF i > Len(required) THEN None
    ELSE IF required[i].field \notin given THEN required[i].message
    ELSE FirstMissing(required, i + 1, given)

\* project_id = input_data.get('project_id', <default>)
ProjectOf(op, in, s) ==
    IF op.idKey \in in.given THEN in.project
    ELSE IF op.idDefault = "uuid" THEN Uuid4(s, 1, 1)
    ELSE IF op.idDefault = "stackId" /\ "stackId" \in in.given THEN SuppliedStack
    ELSE Empty

Generated(op, in) == op.idKey \notin in.given /\ op.idDefault = "uuid"

\* What str(e) says of a download that failed.
NoArtifactsHandle == "object has no attribute 'artifacts'"
GetObjectFailed == "get_object failed"

\* Downloads that take every failure for that of an optional artifact.
RECURSIVE LoadAllLenient(_, _, _, _, _, _, _)
LoadAllLenient(loads, i, in, bound, s, n, project) ==
    IF i > Len(loads) THEN [log |-> <<>>, error |-> None, cause |-> None, read |-> {}]
    ELSE
      LET l == loads[i]
          called == (l.failure # None \/ l.field \in in.given) /\ "artifacts" \in bound
          rest == LoadAllLenient(loads, i + 1, in, bound, s, n, project)
      IN  [log |-> (IF called THEN <<"download_artifact">> ELSE <<>>) \o rest.log,
           error |-> None, cause |-> None, read |-> {}]

\* Downloads that take every failure for that of a required artifact.
RECURSIVE LoadAllStrict(_, _, _, _, _, _, _)
LoadAllStrict(loads, i, in, bound, s, n, project) ==
    IF i > Len(loads) THEN [log |-> <<>>, error |-> None, cause |-> None, read |-> {}]
    ELSE
      LET l == loads[i]
          asked == l.failure # None \/ l.field \in in.given
          called == asked /\ "artifacts" \in bound
          got == DownloadArtifact(s, n, project, l.agent, l.atype, in.prior,
                                  TimestampOf(in, n), TRUE, TRUE)
          failed == asked /\ (~called \/ got.status # "ok")
          rest == LoadAllStrict(loads, i + 1, in, bound, s, n, project)
          entry == IF called THEN <<"download_artifact">> ELSE <<>>
      IN  IF failed
          THEN [log |-> entry, error |-> "Failed to load: ",
                cause |-> IF called THEN GetObjectFailed ELSE NoArtifactsHandle, read |-> {}]
          ELSE [log |-> entry \o rest.log, error |-> rest.error, cause |-> rest.cause,
                read |-> (IF asked /\ ~failed THEN {l.field} ELSE {}) \cup rest.read]

\* The downloads of prior artifacts, from the i-th on: the calls made and
\* the error that ends the operation, if any, with the text of its cause,
\* and the fields whose artifact was read; the others stay empty.
RECURSIVE LoadAll(_, _, _, _, _, _, _)
LoadAll(loads, i, in, bound, s, n, project) ==
    IF i > Len(loads) THEN [log |-> <<>>, error |-> None, cause |-> None, read |-> {}]
    ELSE
      LET l == loads[i]
          asked == l.failure # None \/ l.field \in in.given
          called == asked /\ "artifacts" \in bound
          got == DownloadArtifact(s, n, project, l.agent, l.atype, in.prior,
                                  TimestampOf(in, n), TRUE, TRUE)
          failed == asked /\ (~called \/ got.status # "ok")
          rest == LoadAll(loads, i + 1, in, bound, s, n, project)
          entry == IF called THEN <<"download_artifact">> ELSE <<>>
      IN  IF failed /\ l.failure # None
          THEN [log |-> entry, error |-> l.failure,
                cause |-> IF called THEN GetObjectFailed ELSE NoArtifactsHandle, read |-> {}]
          ELSE [log |-> entry \o rest.log, error |-> rest.error, cause |-> rest.cause,
                read |-> (IF asked /\ ~failed THEN {l.field} ELSE {}) \cup rest.read]

\* One step of an operation's body: it acts only while no error is raised.
Running(c) == c.error = None

Raise(c, message) == [c EXCEPT !.error = message]

Logged(c, entry) == [c EXCEPT !.log = Append(@, entry)]

\* response = self.ask_llm(messages)
AskLLM(c, fail) ==
    IF ~Running(c) THEN c
    ELSE IF fail = "invoke_model" THEN Raise(Logged(c, "ask_llm"), "invoke_model failed")
    ELSE Logged(c, "ask_llm")

\* artifact_data = self.artifacts.upload_artifact(...); s3_key = artifact_data["s3_key"]
UploadArtifact(c, op, bound, fail, n, project, id, ts) ==
    IF ~Running(c) THEN c
    ELSE IF "artifacts" \notin bound THEN Raise(c, NoArtifactsHandle)
    ELSE LET plan == UploadPlan(c.store, n, Doc(op.atype, NoSeq), project, op.agent,
                                op.atype, id, ts, TRUE)
         IN  IF fail = "put_object"
             THEN Raise(Logged(c, "upload_artifact"), "put_object failed")
             ELSE [Logged(c, "upload_artifact") EXCEPT
                      !.store = PutObject(c.store, plan.key, plan.body),
                      !.s3_key = plan.key,
                      !.written = @ + 1]

\* Agent.save_artifact(content, key): the content as it is, to the key given.
SaveArtifact(c, op, bound) ==
    IF ~Running(c) \/ ~op.resave \/ "artifacts" \notin bound THEN c
    ELSE [Logged(c, "save_artifact") EXCEPT
             !.store = PutObject(c.store, c.s3_key, JsonDumps(Doc(op.atype, NoSeq))),
             !.written = @ + 1]

\* An operation that records every artifact in memory and moves the state.
RememberAlways(c, op, project, id) ==
    IF ~Running(c) THEN c
    ELSE [Logged(c, "add_to_memory") EXCEPT
             !.memory = Append(@, [type |-> op.atype, id |-> id, project_id |-> project,
                                   s3_key |-> c.s3_key]),
             !.state = "recorded"]

\* self.add_to_memory({...}); self.state = "..."
Remember(c, op, project, id) ==
    IF ~Running(c) \/ op.state = None THEN c
    ELSE [Logged(c, "add_to_memory") EXCEPT
             !.memory = Append(@, [type |-> op.atype, id |-> id, project_id |-> project,
                                   s3_key |-> c.s3_key]),
             !.state = op.state]

\* A save_state that persists the agent as it was before the operation
\* recorded its artifact.
SaveStaleState(c, op, bound, fail) ==
    IF ~Running(c) \/ op.state = None \/ "state_db" \notin bound THEN c
    ELSE IF fail = "put_item" THEN Raise(Logged(c, "save_state"), "put_item failed")
    ELSE [Logged(c, "save_state") EXCEPT
             !.stateDb = Append(@, [agentType |-> op.agent, state |-> "initialized",
                                    memory |-> SubSeq(c.memory, 1, Len(c.memory) - 1)])]

\* A save_state that takes the artifact back when put_item fails.
SaveStateOrRevert(c, op, bound, fail) ==
    IF ~Running(c) \/ op.state = None \/ "state_db" \notin bound THEN c
    ELSE IF fail = "put_item"
    THEN [Raise(Logged(c, "save_state"), "put_item failed") EXCEPT
             !.store = {o \in @ : o.key # c.s3_key}]
    ELSE [Logged(c, "save_state") EXCEPT
             !.stateDb = Append(@, [agentType |-> op.agent, state |-> c.state,
                                    memory |-> c.memory])]

\* Agent.save_state()
SaveState(c, op, bound, fail) ==
    IF ~Running(c) \/ op.state = None \/ "state_db" \notin bound THEN c
    ELSE IF fail = "put_item" THEN Raise(Logged(c, "save_state"), "put_item failed")
    ELSE [Logged(c, "save_state") EXCEPT
             !.stateDb = Append(@, [agentType |-> op.agent, state |-> c.state,
                                    memory |-> c.memory])]

\* self.agent_id, which emit_event puts into the detail.
TheAgentId == "agent-1"

\* An emit_event that publishes nothing.
SkipEvent(c, op, bound, fail, project, id) == c

\* Agent.emit_event(detail_type, detail)
EmitEvent(c, op, bound, fail, project, id) ==
    IF ~Running(c) \/ op.event = None \/ "events" \notin bound THEN c
    ELSE IF fail = "put_events" THEN Raise(Logged(c, "emit_event"), "put_events failed")
    ELSE [Logged(c, "emit_event") EXCEPT
             !.events = Append(@, [Source |-> <<"agent", op.agent>>,
                                   DetailType |-> op.event,
                                   Detail |-> [project_id |-> project, id |-> id,
                                               s3_key |-> c.s3_key,
                                               agent_id |-> TheAgentId,
                                               agent_type |-> op.agent]])]

\* Agent.send_message(recipient_id, content), for the i-th recipient on.
RECURSIVE SendMessages(_, _, _, _, _, _, _)
SendMessages(c, op, i, bound, fail, project, id) ==
    IF ~Running(c) \/ i > Len(op.sends) \/ "queue" \notin bound THEN c
    ELSE IF fail = "send_message"
    THEN Raise(Logged(c, "send_message"), "send_message failed")
    ELSE SendMessages(
            [Logged(c, "send_message") EXCEPT
                !.queue = Append(@, [sender_type |-> op.agent,
                                     recipient_id |-> op.sends[i],
                                     content |-> [project_id |-> project, id |-> id,
                                                  s3_key |-> c.s3_key]])],
            op, i + 1, bound, fail, project, id)

\* What an operation works on: the stores, the agent's fields, and what it
\* did so far.
Context(s, db, evs, q, a) ==
    [store |-> s, stateDb |-> db, events |-> evs, queue |-> q,
     state |-> a.state, memory |-> a.memory,
     log |-> <<>>, error |-> None, cause |-> None, read |-> {}, s3_key |-> NoKey,
     written |-> 0,
     validated |-> TRUE]

\* The body of an operation method, from its first line to its return or
\* to the exception that leaves it.
RunOperation(op, in, bound, fail, n, c) ==
    LET missing == FirstMissing(op.required, 1, in.given)
        project == ProjectOf(op, in, c.store)
        id == <<Uuid4(c.store, IF Generated(op, in) THEN 2 ELSE 1, 1)>>
        ts == TimestampOf(in, n)
        loaded == LoadAll(op.loads, 1, in, bound, c.store, n, project)
    IN  IF missing # None
        THEN [c EXCEPT !.error = missing, !.validated = FALSE]
        ELSE SendMessages(
               EmitEvent(
                 SaveState(
                   Remember(
                     SaveArtifact(
                       UploadArtifact(
                         AskLLM([c EXCEPT !.log = loaded.log, !.error = loaded.error,
                                           !.cause = loaded.cause, !.read = loaded.read], fail),
                         op, bound, fail, n, project, id, ts),
                       op, bound),
                     op, project, id),
                   op, bound, fail),
                 op, bound, fail, project, id),
               op, 1, bound, fail, project, id)

\* What the caller of the operation method gets.
Returned(status, error, project, id, key) ==
    [outcome |-> "returned", status |-> status, error |-> error,
     project_id |-> project, id |-> id, s3_key |-> key]

Raised(error) ==
    [outcome |-> "raised", status |-> None, error |-> error,
     project_id |-> Empty, id |-> <<>>, s3_key |-> NoKey]

OperationOutcome(op, in, c, s) ==
    IF c.error = None
    THEN Returned("success", None, ProjectOf(op, in, s),
                  <<Uuid4(s, IF Generated(op, in) THEN 2 ELSE 1, 1)>>, c.s3_key)
    ELSE IF c.validated /\ op.guarded
    THEN Returned("failed", c.error, Empty, <<>>, NoKey)
    ELSE Raised(c.error)

\* A process that lets every exception through.
Unconverted(a, out) == out

\* process(input_data): an exception of the operation becomes a failed
\* result where process has its try/except.
ProcessOutcome(a, out) ==
    IF out.outcome = "raised" /\ ProcessOf(a).wrapped
    THEN Returned("failed", out.error, Empty, <<>>, NoKey)
    ELSE out

UnknownProcessType == "Unknown process type: "

NoAgent == [type |-> None, bound |-> {}, state |-> None, memory |-> <<>>]

\* Agent.__init__: state "initialized", empty memory, the handles bound.
NewAgent(type, bound) ==
    [type |-> type, bound |-> bound, state |-> "initialized", memory |-> <<>>]

NoReturn ==
    [type |-> None, op |-> None, given |-> {}, prior |-> <<"a">>, fail |-> "none",
     omitted |-> {}, unloadable |-> {}, log |-> <<>>, written |-> 0, cause |-> None,
     read |-> {},
     changed |-> TRUE,
     method |-> Raised(None)]
    @@ Raised(None)

OmittedOf(op, in) == {r.field : r \in Range(op.required)} \ in.given

NoInput == [given |-> {}, prior |-> <<"a">>, project |-> SuppliedProject]

\* The operation process dispatches to; the default when process_type is absent.
Dispatched(a, type) == OpNamed(a, IF type = None THEN ProcessOf(a).default ELSE type)

ProcessTypes(a) == OpNames(a) \cup {None, UnknownType}

ProcessInputs(a, type, s) ==
    IF type = UnknownType THEN {NoInput} ELSE Inputs(Dispatched(a, type), s)

\* The downloads an operation cannot go on without.
RequiredLoads(op) == {l \in Range(op.loads) : l.failure # None}

\* The prior artifacts a call asks for that download_artifact raises for:
\* the handle is absent or the bucket holds no such object.
Unloadable(op, in, bound, s, n) ==
    {l.field : l \in {k \in Range(op.loads) :
        /\ k.failure # None \/ k.field \in in.given
        /\ \/ "artifacts" \notin bound
           \/ DownloadArtifact(s, n, ProjectOf(op, in, s), k.agent, k.atype, in.prior,
                               TimestampOf(in, n), TRUE, TRUE).status # "ok"}}

\* The failures that can strike a call: those of the AWS calls it makes.
FailuresOf(a, type, in, bound) ==
    IF type = UnknownType THEN {"none"}
    ELSE LET op == Dispatched(a, type)
         IN  IF OmittedOf(op, in) # {} THEN {"none"}
             ELSE {"none", "invoke_model"}
                  \cup (IF "artifacts" \in bound THEN {"put_object"} ELSE {})
                  \cup (IF op.state # None /\ "state_db" \in bound THEN {"put_item"} ELSE {})
                  \cup (IF op.event # None /\ "events" \in bound THEN {"put_events"} ELSE {})
                  \cup (IF op.sends # <<>> /\ "queue" \in bound THEN {"send_message"} ELSE {})

\* agent.process(input_data): the dispatch, the operation method it calls
\* (ret.method is what that method returned or raised) and what process
\* makes of it.  A call that changed nothing is not followed by another:
\* the next call would meet what this one met.
Process(type, in, fail) ==
    /\ \E op \in {IF type = UnknownType THEN NoOperation ELSE Dispatched(self.type, type)} :
       \E c \in {IF type = UnknownType
                  THEN Raise(Context(store, stateDb, eventBus, queue, self), UnknownProcessType)
                  ELSE RunOperation(op, in, self.bound, fail, now,
                                    Context(store, stateDb, eventBus, queue, self))} :
         \E out \in {IF type = UnknownType THEN Raised(UnknownProcessType)
                      ELSE OperationOutcome(op, in, c, store)} :
           /\ Cardinality(c.store) <= MaxArtifacts
           /\ store' = c.store
           /\ stateDb' = c.stateDb
           /\ eventBus' = c.events
           /\ queue' = c.queue
           /\ self' = [self EXCEPT !.state = c.state, !.memory = c.memory]
           /\ ret' = [type |-> type, op |-> op.name, given |-> in.given,
                      prior |-> IF RequiredLoads(op) = {} THEN <<"a">> ELSE in.prior,
                      fail |-> fail,
                      omitted |-> OmittedOf(op, in),
                      unloadable |-> IF type = UnknownType \/ OmittedOf(op, in) # {} THEN {}
                                     ELSE Unloadable(op, in, self.bound, store, now),
                      log |-> c.log, written |-> c.written, cause |-> c.cause,
                      read |-> c.read,
                      changed |-> <<c.store, c.stateDb, c.events, c.queue, c.state, c.memory>>
                                  # <<store, stateDb, eventBus, queue, self.state, self.memory>>,
                      method |-> IF type = UnknownType THEN Raised(None) ELSE out]
                     @@ ProcessOutcome(self.type, out)
           /\ UNCHANGED <<now, last, llmvars, cfnvars, racevars, statevars, handlervars, apivars, proxyvars>>

(***************************************************************************)
(* The artifact store under two concurrent callers.  upload_artifact is    *)
(* two calls on the bucket, list_objects_v2 and then put_object, and the   *)
(* calls of different callers interleave.                                  *)
(***************************************************************************)
Writers == {"w1", "w2"}

NoWriters == [w \in Writers |-> [pc |-> "idle"]]

\* upload_artifact(data, project_id, agent_type, artifact_type, artifact_id) is called.
Called(data, project, agent, atype, aid) ==
    [pc |-> "called", data |-> data, project |-> project, agent |-> agent,
     atype |-> atype, aid |-> aid, sequence_number |-> NoSeq, s3_key |-> NoStoreKey]

\* sequence_number = self._get_artifact_sequence_number(...)
Scan(w) ==
    /\ writers[w].pc = "called"
    /\ writers' = [writers EXCEPT
                     ![w].pc = "scanned",
                     ![w].sequence_number =
                         GetArtifactSequenceNumber(store, now, writers[w].project,
                                                   writers[w].agent, writers[w].atype, TRUE)]
    /\ UNCHANGED <<s3vars, llmvars, cfnvars, agentvars, statevars, handlervars, apivars, proxyvars>>

\* object_key = self._format_path(...); data['sequence_number'] = ...;
\* self.upload_json(data, object_key); return {..., "s3_key": object_key, ...}
Put(w) ==
    /\ writers[w].pc = "scanned"
    /\ \E key \in {FormatPath(writers[w].project, writers[w].agent, writers[w].atype,
                               writers[w].aid, Absent, writers[w].sequence_number, now)} :
          /\ store' = PutObject(store, key,
                                JsonDumps([writers[w].data EXCEPT
                                              !.sequence_number = writers[w].sequence_number]))
          /\ writers' = [writers EXCEPT ![w].pc = "returned", ![w].s3_key = key]
    /\ UNCHANGED <<now, last, llmvars, cfnvars, agentvars, statevars, handlervars, apivars, proxyvars>>

(***************************************************************************)
(* Agent state persistence: Agent.save_state and Agent.load_state on the   *)
(* state table, whose key is (agentId, stateId).  The stateId of a save is *)
(* the reading of the clock; the clock moves on its own.                   *)
(***************************************************************************)
MaxMemory == 2

NoTable == {}

\* The state ids a caller may name, and the one of a call that names none.
StateIds == 0..MaxMonth
NoStateId == -1

\* The booleans load_state returns.
True == "True"
False == "False"
States == {"initialized", "analysis_completed"}

\* json.dumps(self.memory) and json.loads(item['memory']): a text that is
\* not JSON does not decode.
DumpMemory(memory) == <<"json", memory>>
Decodes(text) == text[1] = "json"
LoadMemory(text) == text[2]

Item(agentId, stateId, agentType, state, memory, createdAt, updatedAt) ==
    [agentId |-> agentId, stateId |-> stateId, agentType |-> agentType,
     state |-> state, memory |-> memory, createdAt |-> createdAt, updatedAt |-> updatedAt]

\* An item of the agent that this code did not write: its memory is no JSON.
ForeignItem == Item(TheAgentId, 0, "other", "foreign", <<"text", <<>>>>, 0, 0)

\* Table.put_item(Item=item): the item of the same key is replaced.
PutItem(t, item) ==
    {i \in t : ~(i.agentId = item.agentId /\ i.stateId = item.stateId)} \cup {item}

\* Table.get_item(Key=key).get('Item')
GetItem(t, agentId, stateId) ==
    IF \E i \in t : i.agentId = agentId /\ i.stateId = stateId
    THEN {CHOOSE i \in t : i.agentId = agentId /\ i.stateId = stateId}
    ELSE {}

\* Table.query(agentId, ScanIndexForward=False, Limit=1): the latest item.
QueryLatest(t, agentId) ==
    LET mine == {i \in t : i.agentId = agentId}
    IN  IF mine = {} THEN {}
        ELSE {CHOOSE i \in mine : \A j \in mine : j.stateId <= i.stateId}

\* The agent object with its id and creation time.
StatefulAgent(type, bound, t) ==
    [id |-> TheAgentId, type |-> type, bound |-> bound, state |-> "initialized",
     memory |-> <<>>, created_at |-> t]

\* self.add_to_memory(item); self.state = state
Work(state) ==
    /\ Len(self.memory) < MaxMemory
    /\ self' = [self EXCEPT !.state = state, !.memory = Append(@, state)]
    /\ ret' = [op |-> "work", outcome |-> "returned", result |-> None]
    /\ UNCHANGED <<now, store, last, llmvars, cfnvars, stateDb, eventBus, queue, racevars, statevars, handlervars, apivars, proxyvars>>

\* Agent.save_state(): the item put, or {} where no state table is bound;
\* a failure of put_item leaves the method as an exception.
AgentSaveState(putOk) ==
    /\ IF "state_db" \notin self.bound
       THEN /\ ret' = [op |-> "save_state", outcome |-> "returned", result |-> "empty"]
            /\ table' = table
       ELSE IF ~putOk
       THEN /\ ret' = [op |-> "save_state", outcome |-> "raised", result |-> None]
            /\ table' = table
       ELSE /\ ret' = [op |-> "save_state", outcome |-> "returned", result |-> "put"]
            /\ table' = PutItem(table, Item(self.id, now, self.type, self.state,
                                             DumpMemory(self.memory), self.created_at, now))
    /\ UNCHANGED <<now, store, last, llmvars, cfnvars, self, stateDb, eventBus, queue, racevars, handlervars, apivars, proxyvars>>

\* The fields load_state takes from an item, in the order it assigns them:
\* the decoding of the memory comes after agent_type and state.
Assigned(a, item) ==
    IF Decodes(item.memory)
    THEN [a EXCEPT !.type = item.agentType, !.state = item.state,
                   !.memory = LoadMemory(item.memory), !.created_at = item.createdAt]
    ELSE [a EXCEPT !.type = item.agentType, !.state = item.state]

\* Agent.load_state(state_id): True when an item was found and decoded.
AgentLoadState(stateId, readOk) ==
    /\ IF "state_db" \notin self.bound \/ ~readOk
       THEN /\ self' = self
            /\ ret' = [op |-> "load_state", outcome |-> "returned", result |-> False]
       ELSE \E found \in {IF stateId = NoStateId THEN QueryLatest(table, self.id)
                           ELSE GetItem(table, self.id, stateId)} :
              IF found = {}
              THEN /\ self' = self
                   /\ ret' = [op |-> "load_state", outcome |-> "returned", result |-> False]
              ELSE \E item \in found :
                     /\ self' = Assigned(self, item)
                     /\ ret' = [op |-> "load_state", outcome |-> "returned",
                                result |-> IF Decodes(item.memory) THEN True ELSE False]
    /\ UNCHANGED <<now, store, last, llmvars, cfnvars, stateDb, eventBus, queue, racevars, statevars, handlervars, apivars, proxyvars>>

\* Time passes.
ClockMoves ==
    /\ now < MaxMonth
    /\ now' = now + 1
    /\ UNCHANGED <<store, last, llmvars, cfnvars, agentvars, racevars, statevars, handlervars, apivars, proxyvars>>

(***************************************************************************)
(* The Lambda handlers of the domain agents.  An event is a dict: the keys *)
(* it has, the function or process_type it names, and the operation's      *)
(* fields it gives (as parameters, or at its top level).                   *)
(***************************************************************************)
NoResponse == [form |-> "none"]

SessionValue == "session-1"

\* The handlers that copy event['sessionId'] into input_data['project_id'].
SessionMapped == {"architect", "engineer", "cloud_architect"}

Event(actionGroup, function, sessionId, agentId, name, fields) ==
    [actionGroup |-> actionGroup, function |-> function, sessionId |-> sessionId,
     agentId |-> agentId, name |-> name, fields |-> fields]

\* A test of the function key alone.
HasFunction(event) == event.function

\* if 'actionGroup' in event and 'function' in event
IsActionGroup(event) == event.actionGroup /\ event.function

\* input_data: the process type and the fields process is given.
InputData(a, event) ==
    IF IsActionGroup(event)
    THEN [type |-> event.name,
          given |-> event.fields \cup
                    (IF a \in SessionMapped /\ event.sessionId THEN {"project_id"} ELSE {}),
          prior |-> <<"a">>,
          project |-> IF a \in SessionMapped /\ event.sessionId THEN SessionValue
                      ELSE SuppliedProject]
    ELSE [type |-> event.name, given |-> event.fields, prior |-> <<"a">>,
          project |-> SuppliedProject]

\* if agent_id: agent.load_state()
Loaded(a, event, t) ==
    IF event.agentId /\ "state_db" \in a.bound /\ QueryLatest(t, a.id) # {}
    THEN Assigned(a, CHOOSE i \in QueryLatest(t, a.id) : TRUE)
    ELSE a

\* The response to a Bedrock agent: the result as JSON text in the envelope.
Envelope(event, result) ==
    [form |-> "envelope", messageVersion |-> "1.0",
     actionGroup |-> IF event.actionGroup THEN "action-group" ELSE Empty,
     function |-> IF event.function THEN event.name ELSE Empty,
     body |-> <<"json", result>>]

Direct(result) == [form |-> "direct", body |-> result]

\* {'error': str(e), 'status': 'failed'}
ErrorBody(error) == [status |-> "failed", error |-> error]

\* What the handler returns for what process returned or raised.
Respond(event, out) ==
    LET result == IF out.outcome = "raised" THEN ErrorBody(out.error)
                  ELSE [status |-> out.status, error |-> out.error,
                        project_id |-> out.project_id, id |-> out.id, s3_key |-> out.s3_key]
    IN  IF IsActionGroup(event) THEN Envelope(event, result) ELSE Direct(result)

\* handler(event, context): the agent is constructed, its state loaded where
\* the event names an agent id, process called and its result returned.
AgentHandler(a, event, fail) ==
    /\ \E in \in {InputData(a, event)} :
       \E agent \in {Loaded(self, event, table)} :
       \E op \in {IF in.type = UnknownType THEN NoOperation ELSE Dispatched(a, in.type)} :
       \E c \in {IF in.type = UnknownType
                  THEN Raise(Context(store, stateDb, eventBus, queue, agent), UnknownProcessType)
                  ELSE RunOperation(op, in, agent.bound, fail, now,
                                    Context(store, stateDb, eventBus, queue, agent))} :
       \E out \in {ProcessOutcome(a, IF in.type = UnknownType THEN Raised(UnknownProcessType)
                                      ELSE OperationOutcome(op, in, c, store))} :
         /\ store' = c.store
         /\ stateDb' = c.stateDb
         /\ eventBus' = c.events
         /\ queue' = c.queue
         /\ self' = [agent EXCEPT !.state = c.state, !.memory = c.memory]
         /\ response' = Respond(event, out)
                          @@ [event |-> event, op |-> op.name, process |-> out]
    /\ UNCHANGED <<now, last, llmvars, cfnvars, ret, racevars, statevars, apivars, proxyvars>>

(***************************************************************************)
(* The public HTTP API (api/index.py).  A path is its text as a sequence   *)
(* of characters, so that startswith is a comparison of prefixes.  A body  *)
(* is absent, a text json.loads rejects, or an object given by its keys.   *)
(***************************************************************************)
MaxPublished == 1

AgentsPrefix == <<"/", "a", "g", "e", "n", "t", "s">>
TasksPrefix == <<"/", "t", "a", "s", "k", "s">>

\* path.startswith(prefix)
PathStartsWith(path, prefix) ==
    /\ Len(path) >= Len(prefix)
    /\ SubSeq(path, 1, Len(prefix)) = prefix

Paths ==
    {AgentsPrefix, AgentsPrefix \o <<"/", "1">>, AgentsPrefix \o <<"/", "1", "/", "x">>,
     AgentsPrefix \o <<"x">>,
     TasksPrefix, TasksPrefix \o <<"/", "1">>, TasksPrefix \o <<"-", "x">>,
     <<"/", "h">>, <<"/">>, <<>>}

HttpMethods == {"GET", "POST", "PUT", "DELETE"}

AbsentBody == [kind |-> "absent", keys |-> {}]
InvalidBody == [kind |-> "invalid", keys |-> {}]
JsonBody(keys) == [kind |-> "json", keys |-> keys]
Bodies == {AbsentBody, InvalidBody, JsonBody({}), JsonBody({"agent_type"}), JsonBody({"requirement"})}

\* event.get('pathParameters', {}) or {}: the keys it holds.
PathParameters == {{}, {"agentId"}, {"taskId"}}

HttpEvent(method, path, body, params) ==
    [httpMethod |-> method, path |-> path, body |-> body, pathParameters |-> params]

HttpResponse(code, error, calls) ==
    [statusCode |-> code, error |-> error, calls |-> calls, published |-> <<>>]

\* The entry create_agent puts on the event bus.
AgentCreated ==
    [Source |-> <<"api", "agents">>, DetailType |-> "AgentCreated",
     Detail |-> [agent_id |-> "agent_type-uuid", agent_type |-> "agent_type",
                 user_id |-> "default-user"]]

MethodNotAllowed == HttpResponse(405, "Method Not Allowed", <<>>)
NotFound == HttpResponse(404, "Not Found", <<>>)

\* create_agent: a failure of put_events is logged, the answer is 201.
CreateAgent(body, ok) ==
    IF "agent_type" \notin body.keys THEN HttpResponse(400, "agent_type is required", <<>>)
    ELSE [HttpResponse(201, None, <<"put_events">>) EXCEPT
             !.published = IF ok THEN <<AgentCreated>> ELSE <<>>]

\* get_task: any failure of describe_execution is a 404.
GetTask(ok) ==
    IF ok THEN HttpResponse(200, None, <<"describe_execution">>)
    ELSE HttpResponse(404, "Task not found", <<"describe_execution">>)

\* create_task: a failure of start_execution is a 500.
CreateTask(body, ok) ==
    IF "requirement" \notin body.keys THEN HttpResponse(400, "requirement is required", <<>>)
    ELSE IF ok THEN HttpResponse(201, None, <<"start_execution">>)
    ELSE HttpResponse(500, "start_execution failed", <<"start_execution">>)

HandleAgentsRoute(method, params, body, ok) ==
    IF method = "GET" THEN HttpResponse(200, None, <<>>)
    ELSE IF method = "POST" THEN CreateAgent(body, ok)
    ELSE MethodNotAllowed

HandleTasksRoute(method, params, body, ok) ==
    IF method = "GET"
    THEN IF "taskId" \in params THEN GetTask(ok) ELSE HttpResponse(200, None, <<>>)
    ELSE IF method = "POST" THEN CreateTask(body, ok)
    ELSE MethodNotAllowed

\* if path.startswith('/agents') ... elif path.startswith('/tasks') ... else
RouteOf(path) ==
    IF PathStartsWith(path, AgentsPrefix) THEN "agents"
    ELSE IF PathStartsWith(path, TasksPrefix) THEN "tasks"
    ELSE None

\* handler(event, context): the body is parsed before the routing, and an
\* exception anywhere is a 500.
ApiResponse(method, path, body, params, ok) ==
    IF body.kind = "invalid" THEN HttpResponse(500, "json.loads failed", <<>>)
    ELSE IF RouteOf(path) = "agents" THEN HandleAgentsRoute(method, params, body, ok)
    ELSE IF RouteOf(path) = "tasks" THEN HandleTasksRoute(method, params, body, ok)
    ELSE NotFound

NoRequest == [event |-> HttpEvent(None, <<>>, AbsentBody, {}), response |-> HttpResponse(0, None, <<>>)]

\* One request: the function keeps nothing from one request to the next;
\* what it publishes stays on the event bus.
ApiHandler(method, path, body, params, ok) ==
    /\ http' = [event |-> HttpEvent(method, path, body, params),
                response |-> ApiResponse(method, path, body, params, ok)]
    /\ eventBus' = eventBus \o http'.response.published
    /\ Len(eventBus') <= MaxPublished
    /\ UNCHANGED <<s3vars, llmvars, cfnvars, self, stateDb, queue, ret, racevars, statevars,
                   handlervars, proxyvars>>

(***************************************************************************)
(* The LLM proxy (llm-proxy/index.py).  An item of messages is a dict      *)
(* with the role it names, or something that is no dict ("str"), on which  *)
(* msg.get raises.                                                         *)
(***************************************************************************)
MaxProxyMsgs == 2

ProxyItems == {"user", "assistant", "system", "tool", "str"}

ProxyMessages == UNION {[1..n -> ProxyItems] : n \in 0..MaxProxyMsgs}

\* The event: a dict with its messages and prompt, or no dict at all.
ProxyEvent(isDict, messages, prompt) ==
    [isDict |-> isDict, messages |-> messages, prompt |-> prompt]

ProxyEvents ==
    {ProxyEvent(TRUE, m, p) : m \in ProxyMessages, p \in BOOLEAN}
        \cup {ProxyEvent(FALSE, <<>>, FALSE)}

\* What invoke_model does: it raises, or its body is no JSON, or the body
\* holds a list of text blocks, a list with a block that is no dict, a
\* text, or no content at all.
ProxyAnswers == {"raise", "notjson", "blocks", "badblock", "text", "other"}

ProxyReturned(status, content, error, sent) ==
    [outcome |-> "returned", status |-> status, content |-> content, error |-> error,
     sent |-> sent]

ProxyRaised(error, sent) ==
    [outcome |-> "raised", status |-> None, content |-> None, error |-> error, sent |-> sent]

\* if prompt and not messages: messages = [{"role": "user", "content": prompt}]
WithPrompt(event) ==
    IF event.prompt /\ event.messages = <<>> THEN <<"user">> ELSE event.messages

\* The loop over messages, from the i-th on: the roles of valid_messages,
\* or "raised" where msg.get meets an item that is no dict.
RECURSIVE ValidMessages(_, _)
ValidMessages(messages, i) ==
    IF i > Len(messages) THEN [raised |-> FALSE, roles |-> <<>>]
    ELSE IF messages[i] = "str" THEN [raised |-> TRUE, roles |-> <<>>]
    ELSE LET rest == ValidMessages(messages, i + 1)
         IN  [raised |-> rest.raised,
              roles |-> (IF messages[i] \in {"user", "assistant", "system"}
                         THEN <<IF messages[i] = "system" THEN "user" ELSE messages[i]>>
                         ELSE <<>>) \o rest.roles]

\* The body of the try block.
ProxyBody(event, answer) ==
    IF ~event.isDict THEN ProxyRaised("object has no attribute 'get'", <<>>)
    ELSE LET messages == WithPrompt(event)
             valid == ValidMessages(messages, 1)
         IN  IF messages = <<>>
             THEN ProxyReturned("failed", None, "No messages provided", <<>>)
             ELSE IF valid.raised THEN ProxyRaised("object has no attribute 'get'", <<>>)
             ELSE IF valid.roles = <<>>
             THEN ProxyReturned("failed", None, "No valid messages after processing", <<>>)
             ELSE IF answer = "raise" THEN ProxyRaised("invoke_model failed", valid.roles)
             ELSE IF answer = "notjson" THEN ProxyRaised("json.loads failed", valid.roles)
             ELSE IF answer = "badblock"
             THEN ProxyRaised("object has no attribute 'get'", valid.roles)
             ELSE ProxyReturned("success", answer, None, valid.roles)

\* A handler without its except clause.
ProxyUncaught(out) == out

\* except Exception as e: return {'error': str(e), 'status': 'failed'}
ProxyCaught(out) ==
    IF out.outcome = "raised" THEN ProxyReturned("failed", None, out.error, out.sent)
    ELSE out

ProxyIdle == [event |-> ProxyEvent(FALSE, <<>>, FALSE), answer |-> None,
              result |-> ProxyRaised(None, <<>>)]

\* handler(event, context)
ProxyHandler(event, answer) ==
    /\ proxy' = [event |-> event, answer |-> answer,
                 result |-> ProxyCaught(ProxyBody(event, answer))]
    /\ UNCHANGED <<s3vars, llmvars, cfnvars, agentvars, racevars, statevars, handlervars,
                   apivars>>

(***************************************************************************)
(* Specifications: one for each part, the other parts standing still.      *)
(***************************************************************************)
S3Init ==
    /\ now = 1
    /\ store = {}
    /\ last = NoCall
    /\ llm = LLMIdle
    /\ cfn = CfnIdle
    /\ self = NoAgent
    /\ stateDb = <<>>
    /\ eventBus = <<>>
    /\ queue = <<>>
    /\ ret = NoReturn
    /\ proxy = ProxyIdle
    /\ http = NoRequest
    /\ response = NoResponse
    /\ table = NoTable
    /\ writers = NoWriters

S3Next ==
    \/ \E data \in InputDocs, project \in Projects, agent \in StoreAgentTypes,
          atype \in StoreArtifactTypes, aid \in ArtifactIds, ts \in Timestamps,
          listOk \in BOOLEAN, putOk \in {TRUE} :
            Upload(data, project, agent, atype, aid, ts, listOk, putOk)
    \/ \E project \in Projects, agent \in StoreAgentTypes,
          atype \in StoreArtifactTypes, aid \in ArtifactIds, ts \in Timestamps,
          listOk \in BOOLEAN, getOk \in {TRUE} :
            Download(project, agent, atype, aid, ts, listOk, getOk)
    \/ MonthPasses

SpecS3 == S3Init /\ [][S3Next]_vars

\* The calls of _format_path alone, as the clock goes on.
FormatInit ==
    /\ now = 1
    /\ store = {}
    /\ last = NoCall
    /\ llm = LLMIdle
    /\ cfn = CfnIdle
    /\ self = NoAgent
    /\ stateDb = <<>>
    /\ eventBus = <<>>
    /\ queue = <<>>
    /\ ret = NoReturn
    /\ proxy = ProxyIdle
    /\ http = NoRequest
    /\ response = NoResponse
    /\ table = NoTable
    /\ writers = NoWriters

FormatNext ==
    \/ \E project \in Projects, agent \in StoreAgentTypes,
          atype \in StoreArtifactTypes, aid \in ArtifactIds, ts \in Timestamps,
          seq \in SequenceNumbers :
            Format(project, agent, atype, aid, ts, seq)
    \/ MonthPasses

SpecFormat == FormatInit /\ [][FormatNext]_vars

LLMInit ==
    /\ llm \in {[status |-> "called", input |-> msgs, messages |-> <<>>] :
                   msgs \in SeqsUpTo(Messages, MaxMsgs)}
    /\ now = 1
    /\ store = {}
    /\ last = NoCall
    /\ cfn = CfnIdle
    /\ self = NoAgent
    /\ stateDb = <<>>
    /\ eventBus = <<>>
    /\ queue = <<>>
    /\ ret = NoReturn
    /\ proxy = ProxyIdle
    /\ http = NoRequest
    /\ response = NoResponse
    /\ table = NoTable
    /\ writers = NoWriters

LLMNext == InvokeLLM

SpecLLM == LLMInit /\ [][LLMNext]_vars

CfnInit ==
    /\ \E d \in Details, a \in Apis : cfn = [status |-> "received", detail |-> d, api |-> a]
    /\ now = 1
    /\ store = {}
    /\ last = NoCall
    /\ llm = LLMIdle
    /\ self = NoAgent
    /\ stateDb = <<>>
    /\ eventBus = <<>>
    /\ queue = <<>>
    /\ ret = NoReturn
    /\ proxy = ProxyIdle
    /\ http = NoRequest
    /\ response = NoResponse
    /\ table = NoTable
    /\ writers = NoWriters

\* One invocation of the Lambda function.
CfnHandler ==
    /\ cfn.status = "received"
    /\ cfn' = [status |-> "returned", detail |-> cfn.detail, api |-> cfn.api]
              @@ Handler(cfn.detail, cfn.api)
    /\ UNCHANGED <<s3vars, llmvars, agentvars, racevars, statevars, handlervars, apivars, proxyvars>>

CfnNext == CfnHandler

SpecCfn == CfnInit /\ [][CfnNext]_vars

RaceInit ==
    /\ writers \in [Writers -> {Called(d, p, a, t, i) :
                                   d \in InputDocs, p \in Projects, a \in StoreAgentTypes,
                                   t \in StoreArtifactTypes, i \in ArtifactIds}]
    /\ now = 1
    /\ store = {}
    /\ last = NoCall
    /\ llm = LLMIdle
    /\ cfn = CfnIdle
    /\ self = NoAgent
    /\ stateDb = <<>>
    /\ eventBus = <<>>
    /\ queue = <<>>
    /\ ret = NoReturn
    /\ proxy = ProxyIdle
    /\ http = NoRequest
    /\ response = NoResponse
    /\ table = NoTable

RaceNext ==
    \/ \E w \in Writers : Scan(w)
    \/ \E w \in Writers : Put(w)

SpecRace == RaceInit /\ [][RaceNext]_vars

StateInit ==
    /\ \E bound \in {Handles, Handles \ {"state_db"}} :
          self = StatefulAgent("product_manager", bound, 1)
    /\ table \in {NoTable, {ForeignItem}}
    /\ now = 1
    /\ store = {}
    /\ last = NoCall
    /\ llm = LLMIdle
    /\ cfn = CfnIdle
    /\ stateDb = <<>>
    /\ eventBus = <<>>
    /\ queue = <<>>
    /\ ret = NoReturn
    /\ proxy = ProxyIdle
    /\ http = NoRequest
    /\ response = NoResponse
    /\ writers = NoWriters

StateNext ==
    \/ \E state \in States : Work(state)
    \/ \E putOk \in BOOLEAN : AgentSaveState(putOk)
    \/ \E stateId \in StateIds \cup {NoStateId}, readOk \in BOOLEAN : AgentLoadState(stateId, readOk)
    \/ ClockMoves

SpecState == StateInit /\ [][StateNext]_vars

\* An item that a save_state of the agent wrote before.
SavedItem == Item(TheAgentId, 0, "product_manager", "analysis_completed", DumpMemory(<<>>), 0, 0)

HandlerInit ==
    /\ \E type \in AgentTypes : self = StatefulAgent(type, Handles, 1)
    /\ table \in {NoTable, {SavedItem}}
    /\ response = NoResponse
    /\ now = 1
    /\ store = {}
    /\ last = NoCall
    /\ llm = LLMIdle
    /\ cfn = CfnIdle
    /\ stateDb = <<>>
    /\ eventBus = <<>>
    /\ queue = <<>>
    /\ ret = NoReturn
    /\ proxy = ProxyIdle
    /\ http = NoRequest
    /\ writers = NoWriters

\* One invocation in a behaviour.
HandlerNext ==
    /\ response = NoResponse
    /\ \E name \in ProcessTypes(self.type) :
        \E fields \in IF name = UnknownType THEN {{}}
                       ELSE SUBSET FieldsOf(Dispatched(self.type, name)) :
          \E actionGroup, function, sessionId, agentId \in BOOLEAN :
            \E event \in {e \in {Event(actionGroup, function, sessionId, agentId, name, fields)} :
                              IsActionGroup(e) => e.name # None} :
              \E fail \in FailuresOf(self.type, InputData(self.type, event).type,
                                      InputData(self.type, event), self.bound) :
                AgentHandler(self.type, event, fail)

SpecHandler == HandlerInit /\ [][HandlerNext]_vars

ApiInit ==
    /\ http = NoRequest
    /\ now = 1
    /\ store = {}
    /\ last = NoCall
    /\ llm = LLMIdle
    /\ cfn = CfnIdle
    /\ self = NoAgent
    /\ stateDb = <<>>
    /\ eventBus = <<>>
    /\ queue = <<>>
    /\ ret = NoReturn
    /\ proxy = ProxyIdle
    /\ response = NoResponse
    /\ table = NoTable
    /\ writers = NoWriters

ApiNext ==
    \E method \in HttpMethods, path \in Paths, body \in Bodies, params \in PathParameters,
       ok \in BOOLEAN :
        ApiHandler(method, path, body, params, ok)

SpecApi == ApiInit /\ [][ApiNext]_vars

ProxyInit ==
    /\ proxy = ProxyIdle
    /\ http = NoRequest
    /\ now = 1
    /\ store = {}
    /\ last = NoCall
    /\ llm = LLMIdle
    /\ cfn = CfnIdle
    /\ self = NoAgent
    /\ stateDb = <<>>
    /\ eventBus = <<>>
    /\ queue = <<>>
    /\ ret = NoReturn
    /\ response = NoResponse
    /\ table = NoTable
    /\ writers = NoWriters

ProxyNext == \E event \in ProxyEvents, answer \in ProxyAnswers : ProxyHandler(event, answer)

SpecProxy == ProxyInit /\ [][ProxyNext]_vars

AgentInit ==
    /\ \E type \in AgentTypes, bound \in Configurations : self = NewAgent(type, bound)
    /\ stateDb = <<>>
    /\ eventBus = <<>>
    /\ queue = <<>>
    /\ ret = NoReturn
    /\ proxy = ProxyIdle
    /\ http = NoRequest
    /\ response = NoResponse
    /\ table = NoTable
    /\ writers = NoWriters
    /\ now = 1
    /\ store = {}
    /\ last = NoCall
    /\ llm = LLMIdle
    /\ cfn = CfnIdle

AgentNext ==
    /\ ret.changed
    /\ \E type \in ProcessTypes(self.type) :
      \E in \in ProcessInputs(self.type, type, store) :
        \E fail \in FailuresOf(self.type, type, in, self.bound) :
          Process(type, in, fail)

SpecAgent == AgentInit /\ [][AgentNext]_vars

(***************************************************************************)
(* C1.  Every upload_artifact call, whatever its timestamp argument,       *)
(* assigns 1 + the highest sequence number among the objects already       *)
(* stored under the prefix the new object is written into (1 when that     *)
(* prefix holds no object).  Stated for the calls whose listing succeeded. *)
(***************************************************************************)
C1_SequenceFollowsWrittenPrefix ==
    [][(last'.op = "upload_artifact" /\ last'.listOk)
         => last'.sequence_number = 1 + MaxSeqUnder(store, PrefixOf(last'.s3_key))]_vars

(***************************************************************************)
(* C2.  upload_artifact followed by download_artifact with the same        *)
(* arguments returns the uploaded document plus its sequence_number,       *)
(* whatever else the bucket holds.  Stated for the calls whose listings    *)
(* succeeded.                                                              *)
(***************************************************************************)
SameArtifactArgs(a, b) ==
    /\ a.project = b.project /\ a.agent = b.agent /\ a.atype = b.atype
    /\ a.aid = b.aid /\ a.ts = b.ts

C2_UploadDownloadRoundTrip ==
    [][(/\ last.op = "upload_artifact" /\ last.status = "ok" /\ last.listOk
        /\ last'.op = "download_artifact" /\ last'.listOk
        /\ SameArtifactArgs(last, last'))
         => (/\ last'.status = "ok"
             /\ last'.doc = [last.data EXCEPT !.sequence_number = last.sequence_number])]_vars


(***************************************************************************)
(* C4.  For every input with at least one user or assistant message, the   *)
(* list that is sent strictly alternates between user and assistant; the   *)
(* one exception is a user message repeated in the very last position.     *)
(***************************************************************************)
HasConversation(msgs) == \E i \in 1..Len(msgs) : msgs[i].role \in {"user", "assistant"}

AlternatesAt(v, i) ==
    \/ v[i].role # v[i + 1].role
    \/ i + 1 = Len(v) /\ v[i + 1].role = "user"

C4_OutboundAlternates ==
    (llm.status = "sent" /\ HasConversation(llm.input))
        => \A i \in 1..(Len(llm.messages) - 1) : AlternatesAt(llm.messages, i)

(***************************************************************************)
(* C5.  When the input carries system messages, nothing that is sent has   *)
(* the system role and the first user message starts with the aggregated   *)
(* system text: [system X, user Y] is sent as one user message that begins *)
(* with X and ends with Y.                                                 *)
(***************************************************************************)
FirstUser(v) == v[CHOOSE i \in 1..Len(v) :
                      v[i].role = "user" /\ \A j \in 1..(i - 1) : v[j].role # "user"]

StartsWith(c, pre) == Len(pre) <= Len(c) /\ SubSeq(c, 1, Len(pre)) = pre

HasUser(v) == \E i \in 1..Len(v) : v[i].role = "user"

C5_SystemTextPrepended ==
    (llm.status = "sent" /\ HasSystem(llm.input) /\ HasUser(llm.input))
        => /\ \A i \in 1..Len(llm.messages) : llm.messages[i].role # "system"
           /\ HasUser(llm.messages)
           /\ StartsWith(FirstUser(llm.messages).content, SystemContent(llm.input))
           /\ IsSuffix(FirstUser(llm.input).content, FirstUser(llm.messages).content)

(***************************************************************************)
(* C9.  As stated: for an event in which only detail.stack-id is           *)
(* populated the parser calls describe_stacks, get_template and            *)
(* describe_stack_events exactly once each, and stackName,                 *)
(* logicalResourceId and resourceType of the result are those of the first *)
(* history event whose status is CREATE_FAILED, UPDATE_FAILED or           *)
(* DELETE_FAILED.                                                          *)
(***************************************************************************)
OnlyStackId(d) ==
    /\ d.stackId # Empty
    /\ d.stackName = Empty /\ d.status = Empty /\ d.statusReason = Empty
    /\ d.logicalResourceId = Empty /\ d.resourceType = Empty

IsFirstFailure(es, i) ==
    /\ es[i].ResourceStatus \in FailureStatuses
    /\ \A j \in 1..(i - 1) : es[j].ResourceStatus \notin FailureStatuses

C9_AllFromFirstFailureEvent ==
    (cfn.status = "returned" /\ OnlyStackId(cfn.detail))
        => /\ cfn.calls = Calls(1, 1, 1)
           /\ \A i \in 1..Len(cfn.api.events.StackEvents) :
                 IsFirstFailure(cfn.api.events.StackEvents, i)
                    => LET e == cfn.api.events.StackEvents[i]
                       IN  /\ cfn.result.stackName = e.StackName
                           /\ cfn.result.logicalResourceId = Get(e.LogicalResourceId, Empty)
                           /\ cfn.result.resourceType = Get(e.ResourceType, Empty)

(***************************************************************************)
(* C9, amended.  For an event in which only detail.stack-id is populated   *)
(* the parser calls describe_stacks exactly once and, unless that call     *)
(* fails, get_template and describe_stack_events exactly once each.  When  *)
(* neither describe_stacks nor describe_stack_events fails, stackName is   *)
(* the StackName describe_stacks gave for the first stack (empty when it   *)
(* gave none), and logicalResourceId and resourceType are those of the     *)
(* first history event with a failure status (empty when there is no such  *)
(* event or it lacks the field).                                           *)
(***************************************************************************)
DescribedName(answer) ==
    IF answer.Stacks # <<>> /\ answer.Stacks[1].StackName # None
    THEN answer.Stacks[1].StackName
    ELSE Empty

C9_NameFromDescribeStacks ==
    (cfn.status = "returned" /\ OnlyStackId(cfn.detail))
        => LET es == cfn.api.events.StackEvents
           IN  /\ cfn.calls.describe_stacks = 1
               /\ cfn.api.stacks.kind = "ok"
                    => cfn.calls.get_template = 1 /\ cfn.calls.describe_stack_events = 1
               /\ cfn.api.stacks.kind = "raise"
                    => cfn.calls.get_template = 0 /\ cfn.calls.describe_stack_events = 0
               /\ (cfn.api.stacks.kind = "ok" /\ cfn.api.events.kind # "raise")
                    => /\ cfn.result.stackName = DescribedName(cfn.api.stacks)
                       /\ \A i \in 1..Len(es) :
                             IsFirstFailure(es, i)
                                => /\ cfn.result.logicalResourceId
                                         = Get(es[i].LogicalResourceId, Empty)
                                   /\ cfn.result.resourceType = Get(es[i].ResourceType, Empty)
                       /\ (\A i \in 1..Len(es) : ~IsFirstFailure(es, i))
                             => /\ cfn.result.logicalResourceId = Empty
                                /\ cfn.result.resourceType = Empty

C9_Witness ==
    /\ cfn.status = "returned" /\ OnlyStackId(cfn.detail)
    /\ cfn.calls = Calls(1, 1, 1)
    /\ cfn.api.stacks.kind = "ok" /\ cfn.api.events.kind = "ok"
    /\ Len(cfn.api.events.StackEvents) = 2
    /\ cfn.api.events.StackEvents[1].ResourceStatus \in FailureStatuses
    /\ cfn.api.events.StackEvents[2].ResourceStatus \in FailureStatuses
    /\ cfn.api.events.StackEvents[1].LogicalResourceId = "R2"
    /\ cfn.api.events.StackEvents[2].LogicalResourceId = "R1"
    /\ cfn.result.stackName = "api-stack"
    /\ cfn.result.logicalResourceId = "R2"
    /\ cfn.result.resourceType = "T2"

(***************************************************************************)
(* C10.  For every template body that was retrieved, whatever its form:    *)
(* when its serialized size exceeds 50,000 characters the result has       *)
(* hasTemplate = true and a templateSummary and no template; otherwise the *)
(* result has the body verbatim under template and neither hasTemplate nor *)
(* templateSummary.                                                        *)
(***************************************************************************)
TemplateRetrieved ==
    /\ cfn.status = "returned"
    /\ cfn.calls.get_template = 1
    /\ cfn.api.template.kind = "ok"
    /\ cfn.api.template.TemplateBody.form # None
    /\ "error" \notin DOMAIN cfn.result

C10_LargeTemplateSummarized ==
    TemplateRetrieved
        => LET body == cfn.api.template.TemplateBody
               fields == DOMAIN cfn.result
           IN  IF body.size > SizeLimit
               THEN /\ {"hasTemplate", "templateSummary"} \subseteq fields
                    /\ cfn.result.hasTemplate = TRUE
                    /\ "template" \notin fields
               ELSE /\ "template" \in fields
                    /\ cfn.result.template = body
                    /\ "hasTemplate" \notin fields
                    /\ "templateSummary" \notin fields

(***************************************************************************)
(* The agents' operations.                                                 *)
(***************************************************************************)

\* C3: every stored artifact object carries in its document body the
\* sequence number of its key, after any sequence of agent operations.
C3_BodySequenceMatchesKey ==
    \A o \in store : JsonLoads(o.body).sequence_number = o.key.seq

\* Nothing outside the call is touched: the bucket, the state table, the
\* event bus, the queue and the agent's own state and memory.
NoEffect ==
    /\ store' = store
    /\ stateDb' = stateDb
    /\ eventBus' = eventBus
    /\ queue' = queue
    /\ self' = self
    /\ ret'.written = 0
    /\ ret'.log = <<>>

MessagesOf(a, name, fields) ==
    {r.message : r \in {q \in Range(OpNamed(a, name).required) : q.field \in fields}}

\* C6: a call of an operation that omits a required field raises an
\* invalid-input error whose message is that of an omitted required field
\* (of the omitted field, when one is omitted), and writes no artifact,
\* saves no state and emits no event.
C6_OmissionRaisesWithoutEffect ==
    [][ret'.omitted # {} =>
          /\ ret'.method.outcome = "raised"
          /\ ret'.method.error \in MessagesOf(self.type, ret'.op, ret'.omitted)
          /\ ret'.error = ret'.method.error
          /\ NoEffect]_vars

C6_Witness ==
    /\ Cardinality(ret.omitted) = 1
    /\ ret.method.outcome = "raised"
    /\ ret.method.error \in MessagesOf(self.type, ret.op, ret.omitted)
    /\ store # {}

\* C7, as stated: process with an unrecognized process_type returns the
\* failed result with the "Unknown process type" error, whatever the agent,
\* and has no effect.
C7_UnknownTypeReturnsFailed ==
    [][ret'.type = UnknownType =>
          /\ ret'.outcome = "returned"
          /\ ret'.status = "failed"
          /\ ret'.error = UnknownProcessType
          /\ NoEffect]_vars

\* C7, corrected: process with an unrecognized process_type has no effect
\* and reports the "Unknown process type" error, as the failed result for
\* every agent but the Architect, whose process raises it.
C7_UnknownTypeFailsOrRaises ==
    [][ret'.type = UnknownType =>
          /\ ret'.error = UnknownProcessType
          /\ IF self.type = "architect"
             THEN ret'.outcome = "raised"
             ELSE ret'.outcome = "returned" /\ ret'.status = "failed"
          /\ NoEffect]_vars

C7_Witness ==
    /\ ret.type = UnknownType
    /\ self.type = "product_manager"
    /\ ret.outcome = "returned"
    /\ ret.status = "failed"
    /\ store # {}
    /\ Len(self.memory) = 1

\* A successful analyze_requirement of the Product Manager that was given
\* no project_id.
AnalyzedWithoutProject(r) ==
    /\ r.op = "analyze_requirement"
    /\ "project_id" \notin r.given
    /\ r.method.status = "success"

\* What the call does apart from the event: one analysis artifact under a
\* generated project id, one memory record, the state.
AnalysisRecorded ==
    /\ ret'.project_id \notin {SuppliedProject, Empty}
    /\ ret'.written = 1
    /\ \E o \in store' :
          /\ store' = store \cup {o}
          /\ o \notin store
          /\ o.key.atype = "analysis"
          /\ o.key.project = ret'.project_id
          /\ o.key.aid = ret'.id
    /\ Len(self'.memory) = Len(self.memory) + 1
    /\ SubSeq(self'.memory, 1, Len(self.memory)) = self.memory
    /\ self'.state = "analysis_completed"

OneEventEmitted ==
    /\ Len(eventBus') = Len(eventBus) + 1
    /\ SubSeq(eventBus', 1, Len(eventBus)) = eventBus
    /\ eventBus'[Len(eventBus')].DetailType = "RequirementAnalysisCompleted"
    /\ eventBus'[Len(eventBus')].Detail.project_id = ret'.project_id
    /\ eventBus'[Len(eventBus')].Detail.id = ret'.id

\* C8, as stated: a successful analyze_requirement without project_id
\* generates a project id, writes one analysis artifact, appends one memory
\* record, sets the state and emits one RequirementAnalysisCompleted event
\* with the ids of the result.
C8_AnalysisEmitsOneEvent ==
    [][AnalyzedWithoutProject(ret') => AnalysisRecorded /\ OneEventEmitted]_vars

\* C8, corrected: the same, the one event being emitted where the agent has
\* an event bus; without one the call succeeds and emits nothing.
C8_AnalysisEmitsOneEventWhereBound ==
    [][AnalyzedWithoutProject(ret') =>
          /\ AnalysisRecorded
          /\ IF "events" \in self.bound THEN OneEventEmitted
             ELSE eventBus' = eventBus]_vars

C8_Witness ==
    /\ AnalyzedWithoutProject(ret)
    /\ "events" \in self.bound
    /\ Len(eventBus) = 1
    /\ eventBus[1].Detail.project_id = ret.project_id
    /\ Cardinality(store) = 1

(***************************************************************************)
(* Concurrent uploads.                                                     *)
(***************************************************************************)
SamePrefix(a, b) == a.project = b.project /\ a.agent = b.agent /\ a.atype = b.atype

\* C11: two concurrent upload_artifact calls for one prefix whose scans both
\* come before either write hold the same sequence number, and the write of
\* either goes through with that number: the object is stored under the
\* key of the number scanned, whatever the other caller has written.
C11_ConcurrentUploadsShareNumber ==
    /\ [](\A v, w \in Writers :
            (v # w /\ writers[v].pc = "scanned" /\ writers[w].pc = "scanned"
                   /\ SamePrefix(writers[v], writers[w]))
            => writers[v].sequence_number = writers[w].sequence_number)
    /\ [][\A w \in Writers :
            writers[w].pc = "scanned" =>
              /\ ENABLED Put(w)
              /\ writers'[w].pc = "returned" =>
                    /\ writers'[w].sequence_number = writers[w].sequence_number
                    /\ writers'[w].s3_key.seq = writers[w].sequence_number
                    /\ HasKey(store', writers'[w].s3_key)
                    /\ JsonLoads(BodyAt(store', writers'[w].s3_key)).sequence_number
                         = writers[w].sequence_number]_vars

C11_Witness ==
    /\ writers["w1"].pc = "returned"
    /\ writers["w2"].pc = "returned"
    /\ SamePrefix(writers["w1"], writers["w2"])
    /\ writers["w1"].aid # writers["w2"].aid
    /\ writers["w1"].sequence_number = writers["w2"].sequence_number
    /\ HasKey(store, writers["w1"].s3_key)
    /\ HasKey(store, writers["w2"].s3_key)

(***************************************************************************)
(* Partial progress.                                                       *)
(***************************************************************************)
LaterStepFailures == {"put_item failed", "put_events failed", "send_message failed"}

\* The artifact the call wrote: an object the bucket did not hold before.
ArtifactKept(name) ==
    /\ ret'.written >= 1
    /\ \E o \in store' \ store : o.key.atype = OpNamed(self.type, name).atype

\* C12: no call takes away what is stored: the objects of the bucket and the
\* records of the state table stay.  When state persistence, event emission
\* or a peer message fails after the artifact write, the artifact the call
\* wrote is in the bucket, and so is the state record where the failure
\* came after its save.
C12_PartialProgressKept ==
    [][/\ store \subseteq store'
       /\ Len(stateDb) <= Len(stateDb')
       /\ SubSeq(stateDb', 1, Len(stateDb)) = stateDb
       /\ ret'.error \in LaterStepFailures => ArtifactKept(ret'.op)
       /\ (/\ ret'.error \in {"put_events failed", "send_message failed"}
           /\ "state_db" \in self.bound
           /\ OpNamed(self.type, ret'.op).state # None)
          => /\ Len(stateDb') = Len(stateDb) + 1
             /\ stateDb'[Len(stateDb')].state = OpNamed(self.type, ret'.op).state]_vars

C12_Witness ==
    /\ ret.error = "put_events failed"
    /\ ret.written = 1
    /\ Cardinality(store) = 1
    /\ Len(stateDb) = 1
    /\ eventBus = <<>>

(***************************************************************************)
(* Absent handles.                                                         *)
(***************************************************************************)
\* C13: an operation of an agent constructed without the artifacts bucket,
\* called with its required fields, completes without raising or failing
\* and calls no backing service of the bucket.
C13_AbsentHandleDegrades ==
    (/\ ret.op # None
     /\ ret.omitted = {}
     /\ "artifacts" \notin self.bound)
    => /\ ret.method.outcome = "returned"
       /\ ret.method.status # "failed"
       /\ "upload_artifact" \notin Range(ret.log)

(***************************************************************************)
(* Agent state persistence.                                                *)
(***************************************************************************)
\* C14: whenever load_state returns False, the agent's agent_type, state,
\* memory and created_at are what they were before the call.
C14_FailedLoadLeavesAgent ==
    [][(ret'.op = "load_state" /\ ret'.result = False) => self' = self]_vars

\* C15: every successful save_state adds a record to the state table and
\* leaves the records written before as they were.
C15_SaveAddsRecord ==
    [][(ret'.op = "save_state" /\ ret'.result = "put")
         => /\ table \subseteq table'
            /\ Cardinality(table') = Cardinality(table) + 1]_vars

(***************************************************************************)
(* The Lambda handlers.                                                    *)
(***************************************************************************)
\* C16: an action-group invocation that carries sessionId executes the
\* selected operation with project_id equal to that sessionId, whatever the
\* agent.
C16_SessionIdIsProjectId ==
    (/\ response.form = "envelope"
     /\ response.event.sessionId
     /\ response.process.status = "success")
    => response.process.project_id = SessionValue

\* The result object of the operation: what process returned, or the error
\* object for what it raised.
ResultOf(out) ==
    IF out.outcome = "raised" THEN [status |-> "failed", error |-> out.error]
    ELSE [status |-> out.status, error |-> out.error, project_id |-> out.project_id,
          id |-> out.id, s3_key |-> out.s3_key]

\* C17: the response is the action-group envelope, with message version
\* "1.0" and the function of the event, exactly when the event has both the
\* actionGroup and the function key; every other event gets the result
\* object itself.
C17_EnvelopeIffActionGroup ==
    response.form # "none" =>
        IF response.event.actionGroup /\ response.event.function
        THEN /\ response.form = "envelope"
             /\ response.messageVersion = "1.0"
             /\ response.function = response.event.name
             /\ response.body = <<"json", ResultOf(response.process)>>
        ELSE /\ response.form = "direct"
             /\ response.body = ResultOf(response.process)

C17_Witness ==
    /\ response.form = "direct"
    /\ response.event.function
    /\ ~response.event.actionGroup
    /\ response.body.status = "success"
    /\ Cardinality(store) = 1

(***************************************************************************)
(* Prior artifacts.                                                        *)
(***************************************************************************)
\* The input of the call ret tells of.
CallOf(r) == [given |-> r.given, prior |-> r.prior, project |-> SuppliedProject]

\* A call of a known operation that gave every required field.
Validated(r, a) == r.op \in OpNames(a) /\ r.omitted = {}

\* C18: when the download of a required prior artifact fails, the operation
\* raises the load's error with the text of the cause, and has called
\* neither the model nor any write: bucket, state table, event bus, queue
\* and the agent's state and memory are as before.
C18_RequiredLoadFailureAborts ==
    [][(/\ Validated(ret', self.type)
        /\ \E l \in RequiredLoads(OpNamed(self.type, ret'.op)) : l.field \in ret'.unloadable)
       => /\ ret'.method.outcome = "raised"
          /\ ret'.method.error \in {l.failure : l \in RequiredLoads(OpNamed(self.type, ret'.op))}
          /\ ret'.cause \in {GetObjectFailed, NoArtifactsHandle}
          /\ Range(ret'.log) \subseteq {"download_artifact"}
          /\ ret'.written = 0
          /\ store' = store
          /\ stateDb' = stateDb
          /\ eventBus' = eventBus
          /\ queue' = queue
          /\ self' = self]_vars

C18_Witness ==
    /\ ret.op = "create_class_diagram"
    /\ ret.method.error = "Failed to load architecture: "
    /\ ret.cause = GetObjectFailed
    /\ ret.log = <<"download_artifact">>
    /\ store # {}
    /\ stateDb # <<>>

\* The downloads an operation goes on without, of those the call asks for.
OptionalLoads(op, r) == {l \in Range(op.loads) : l.failure = None /\ l.field \in r.given}

\* The same call with no id of an optional prior artifact.
WithoutOptional(op, r) ==
    [CallOf(r) EXCEPT !.given = @ \ {l.field : l \in OptionalLoads(op, r)}]

\* Every optional download of the call fails, and no required one does.
OptionalLoadsFail(op, r) ==
    /\ OptionalLoads(op, r) # {}
    /\ r.unloadable = {l.field : l \in OptionalLoads(op, r)}

\* C19: when the download of an optional prior artifact fails, the value
\* stays empty and the operation does what the same call without the id
\* does: the same bucket, state table, event bus, queue, agent and result;
\* where no later step fails, that result is a success with the artifact
\* written.
C19_OptionalLoadFailureGoesOn ==
    [][(/\ Validated(ret', self.type)
        /\ OptionalLoadsFail(OpNamed(self.type, ret'.op), ret'))
       => \A op \in {OpNamed(self.type, ret'.op)} :
          \A c0 \in {RunOperation(op, WithoutOptional(op, ret'), self.bound, ret'.fail, now,
                                   Context(store, stateDb, eventBus, queue, self))} :
              /\ ret'.read \cap {l.field : l \in OptionalLoads(op, ret')} = {}
              /\ store' = c0.store
              /\ stateDb' = c0.stateDb
              /\ eventBus' = c0.events
              /\ queue' = c0.queue
              /\ self' = [self EXCEPT !.state = c0.state, !.memory = c0.memory]
              /\ ret'.method = OperationOutcome(op, WithoutOptional(op, ret'), c0, store)
              /\ (ret'.fail = "none" /\ "artifacts" \in self.bound)
                 => /\ ret'.method.status = "success"
                    /\ ret'.written >= 1]_vars

C19_Witness ==
    /\ ret.op = "create_architecture"
    /\ "prd_id" \in ret.unloadable
    /\ ret.read = {}
    /\ "download_artifact" \in Range(ret.log)
    /\ ret.method.status = "success"
    /\ ret.written = 1
    /\ Len(eventBus) = 1

(***************************************************************************)
(* The public HTTP API.                                                    *)
(***************************************************************************)
\* /agents, /agents/{id}, /tasks, /tasks/{id}
IsDocumentedRoute(path) ==
    \E base \in {AgentsPrefix, TasksPrefix} :
        \/ path = base
        \/ /\ PathStartsWith(path, base \o <<"/">>)
           /\ Len(path) > Len(base) + 1
           /\ "/" \notin Range(SubSeq(path, Len(base) + 2, Len(path)))

\* C20: a request whose path is none of /agents, /agents/{id}, /tasks and
\* /tasks/{id} is answered 404, whatever its method.
C20_UnknownPathIs404 ==
    (http # NoRequest /\ ~IsDocumentedRoute(http.event.path))
        => http.response.statusCode = 404

(***************************************************************************)
(* The LLM proxy.                                                          *)
(***************************************************************************)
\* C21: whatever the event and whatever invoke_model does, the proxy handler
\* returns: a success with a content, or a failure with an error.
C21_ProxyNeverRaises ==
    proxy # ProxyIdle
        => /\ proxy.result.outcome = "returned"
           /\ \/ proxy.result.status = "success" /\ proxy.result.content # None
                  /\ proxy.result.error = None
              \/ proxy.result.status = "failed" /\ proxy.result.error # None
                  /\ proxy.result.content = None

\* The model call failed after valid messages were sent.
C21_Witness ==
    /\ proxy.answer = "raise"
    /\ proxy.result.error = "invoke_model failed"
    /\ proxy.result.status = "failed"
    /\ proxy.result.sent # <<>>

(***************************************************************************)
(* The materials agents.                                                   *)
(***************************************************************************)
MaterialsAgents == {"property_target", "inverse_design", "experiment_planning"}

\* The operations of the materials agents that emit an event, and the event.
MaterialsEvents ==
    {<<"set_target_properties", "TargetPropertiesSet">>,
     <<"design_materials", "MaterialsDesigned">>,
     <<"create_experiment_plan", "ExperimentPlanCreated">>}

\* C22: a call of a materials agent leaves the agent's state label and
\* memory, the state table and the queue as they were; it writes at most
\* one artifact, and emits at most one event, the one listed for its
\* operation.
C22_MaterialsOnlyWriteAndEmit ==
    [][self.type \in MaterialsAgents
       => /\ self' = self
          /\ stateDb' = stateDb
          /\ queue' = queue
          /\ store \subseteq store'
          /\ Cardinality(store' \ store) = ret'.written
          /\ ret'.written <= 1
          /\ \/ eventBus' = eventBus
             \/ /\ Len(eventBus') = Len(eventBus) + 1
                /\ SubSeq(eventBus', 1, Len(eventBus)) = eventBus
                /\ <<ret'.op, eventBus'[Len(eventBus')].DetailType>> \in MaterialsEvents
                /\ ret'.written = 1]_vars

C22_Witness ==
    /\ self.type = "property_target"
    /\ ret.op = "set_target_properties"
    /\ ret.status = "success"
    /\ ret.written = 1
    /\ Len(eventBus) = 1
    /\ eventBus[1].DetailType = "TargetPropertiesSet"
    /\ self.state = "initialized"
    /\ self.memory = <<>>
    /\ stateDb = <<>>

(***************************************************************************)
(* Domain events.                                                          *)
(***************************************************************************)
\* C23: every entry on the event bus has a Source "agent.{agent_type}", with
\* the agent_type of its Detail, and a Detail that holds agent_id and
\* agent_type.
C23_EventsNameTheirAgent ==
    \A i \in 1..Len(eventBus) :
        /\ {"agent_id", "agent_type"} \subseteq DOMAIN eventBus[i].Detail
        /\ eventBus[i].Source = <<"agent", eventBus[i].Detail.agent_type>>

(***************************************************************************)
(* The artifact key.                                                       *)
(***************************************************************************)
\* C24, as stated: the key _format_path returns is made of its arguments
\* alone: the month of the timestamp, the project, the agent type, the
\* artifact type, the sequence number and the artifact id.
C24_KeyOfArguments ==
    last.op = "_format_path"
        => last.key = Key(last.ts.month, last.project, last.agent, last.atype,
                          last.seq, last.aid)

\* C24: the key _format_path returns holds the project, the agent type, the
\* artifact type and the artifact id it was given; its month is that of
\* the timestamp where one is given and parses, and that of the clock
\* otherwise; its sequence number is the one given, or 1 where that is
\* below 1.
C24_KeyOfArgumentsAndClock ==
    last.op = "_format_path"
        => last.key = Key(IF last.ts.kind = "iso" THEN last.ts.month ELSE now,
                          last.project, last.agent, last.atype,
                          IF last.seq < 1 THEN 1 ELSE last.seq, last.aid)

C24_Witness ==
    /\ last.op = "_format_path"
    /\ last.ts.kind = "iso"
    /\ last.ts.month # now
    /\ last.seq >= 2
    /\ last.key.ym = last.ts.month
    /\ last.key.seq = last.seq

(***************************************************************************)
(* Failures of the CloudFormation calls.                                   *)
(***************************************************************************)
\* The stack name the parser holds once describe_stacks has answered.
NameAfterDescribe(d, answer) ==
    IF answer.Stacks # <<>> /\ answer.Stacks[1].StackName # None
    THEN answer.Stacks[1].StackName
    ELSE d.stackName

\* describe_stack_events is called where a name is still missing.
AsksForEvents(d, answer) ==
    \/ NameAfterDescribe(d, answer) = Empty
    \/ d.logicalResourceId = Empty
    \/ d.resourceType = Empty

\* C25: when describe_stacks fails, the parser returns the error message
\* with the stack id and the stack name of the event; when
\* describe_stack_events fails, it returns the error message with the stack
\* id and the name describe_stacks gave (the event's, where it gave none).
C25_ApiFailureReturnsPartialResult ==
    (cfn.status = "returned" /\ cfn.detail.stackId # Empty)
        => /\ cfn.api.stacks.kind = "raise"
                => /\ DOMAIN cfn.result = {"error", "stackId", "stackName", "timestamp"}
                   /\ cfn.result.error = "describe_stacks failed"
                   /\ cfn.result.stackId = cfn.detail.stackId
                   /\ cfn.result.stackName = cfn.detail.stackName
           /\ (/\ cfn.api.stacks.kind = "ok"
               /\ AsksForEvents(cfn.detail, cfn.api.stacks)
               /\ cfn.api.events.kind = "raise")
                => /\ DOMAIN cfn.result = {"error", "stackId", "stackName", "timestamp"}
                   /\ cfn.result.error = "describe_stack_events failed"
                   /\ cfn.result.stackId = cfn.detail.stackId
                   /\ cfn.result.stackName = NameAfterDescribe(cfn.detail, cfn.api.stacks)

C25_Witness ==
    /\ cfn.status = "returned"
    /\ cfn.detail.stackName = "event-stack"
    /\ cfn.api.stacks.kind = "ok"
    /\ cfn.api.events.kind = "raise"
    /\ "error" \in DOMAIN cfn.result
    /\ cfn.result.error = "describe_stack_events failed"
    /\ cfn.result.stackId = "stack-id"
    /\ cfn.result.stackName = "api-stack"

(***************************************************************************)
(* The order of an operation's side effects.                               *)
(***************************************************************************)
BizDevAgents == {"product_manager", "architect", "engineer"}

StepOrder ==
    <<"upload_artifact", "save_artifact", "add_to_memory", "save_state", "emit_event",
      "send_message">>

StepRank(step) == CHOOSE k \in 1..Len(StepOrder) : StepOrder[k] = step

\* The side effects of a call come in the order of StepOrder.
InStepOrder(log) ==
    \A i, j \in 1..Len(log) :
        (i < j /\ log[i] \in Range(StepOrder) /\ log[j] \in Range(StepOrder))
            => StepRank(log[i]) <= StepRank(log[j])

\* C26: a successful operation of a business-dev agent writes the artifact,
\* appends to memory and moves the state label, persists the state, emits
\* its event and sends its messages, in this order; the state record it
\* persists holds the new label and the memory entry with the artifact's
\* key; and every event and message a call publishes names a key the
\* bucket holds.
C26_EffectsInOrder ==
    [][self.type \in BizDevAgents
       => /\ \A i \in (Len(eventBus) + 1)..Len(eventBus') :
                HasKey(store', eventBus'[i].Detail.s3_key)
          /\ \A i \in (Len(queue) + 1)..Len(queue') :
                HasKey(store', queue'[i].content.s3_key)
          /\ ret'.method.status = "success"
             => /\ InStepOrder(ret'.log)
                /\ {"upload_artifact", "add_to_memory"} \subseteq Range(ret'.log)
                /\ HasKey(store', ret'.method.s3_key)
                /\ Len(self'.memory) = Len(self.memory) + 1
                /\ SubSeq(self'.memory, 1, Len(self.memory)) = self.memory
                /\ self'.memory[Len(self'.memory)].s3_key = ret'.method.s3_key
                /\ self'.state = OpNamed(self.type, ret'.op).state
                /\ "state_db" \in self.bound
                   => /\ Len(stateDb') = Len(stateDb) + 1
                      /\ stateDb'[Len(stateDb')].state = self'.state
                      /\ stateDb'[Len(stateDb')].memory = self'.memory
                /\ \A i \in (Len(eventBus) + 1)..Len(eventBus') :
                      eventBus'[i].Detail.s3_key = ret'.method.s3_key
                /\ \A i \in (Len(queue) + 1)..Len(queue') :
                      queue'[i].content.s3_key = ret'.method.s3_key]_vars

C26_Witness ==
    /\ self.type = "architect"
    /\ ret.op = "create_architecture"
    /\ ret.method.status = "success"
    /\ ret.log = <<"ask_llm", "upload_artifact", "add_to_memory", "save_state",
                   "emit_event", "send_message">>
    /\ Len(stateDb) = 1
    /\ stateDb[1].state = "architecture_created"
    /\ stateDb[1].memory[1].s3_key = ret.method.s3_key
    /\ HasKey(store, ret.method.s3_key)
    /\ Len(eventBus) = 1
    /\ Len(queue) = 1

(***************************************************************************)
(* The bucket as an append-only store.                                     *)
(***************************************************************************)
\* C27: every upload_artifact call that writes, writes under a key the
\* bucket did not hold, and every object the bucket held is still there
\* after the call.
C27_WritesGoToNewKeys ==
    [][(last'.op = "upload_artifact" /\ last'.status = "ok")
         => /\ ~HasKey(store, last'.s3_key)
            /\ store \subseteq store']_vars

(***************************************************************************)
(* The object a download selects.                                          *)
(***************************************************************************)
\* The keys under the month prefix of the last download that were stored
\* for the artifact id it asked for.
StoredForDownload ==
    {o.key : o \in {x \in ListObjects(store, Prefix(TsMonth(last.ts, now), last.project,
                                                   last.agent, last.atype)) :
                        x.key.aid = last.aid}}

\* C28: when objects are stored for artifact id X under the month prefix,
\* download_artifact for X reads one of them, the one with the highest
\* sequence number, and never an object stored for another artifact id.
C28_DownloadReadsOwnLatest ==
    (/\ last.op = "download_artifact" /\ last.listOk
     /\ StoredForDownload # {})
        => /\ last.key \in StoredForDownload
           /\ \A k \in StoredForDownload : k.seq <= last.key.seq

(***************************************************************************)
(* What normalisation adds to the conversation.                            *)
(***************************************************************************)
IsConversation(m) == m.role \in {"user", "assistant"}
IsBridge(m) == m \in {BridgeToUser, BridgeToAssistant}
WithoutBridges(v) == SelectSeq(v, LAMBDA m : ~IsBridge(m))
RolesOf(v) == [i \in 1..Len(v) |-> v[i].role]

\* The input's user and assistant messages, the first one carrying the
\* system text when it is a user message in first position of an input
\* that has system messages.
ConversationWithSystemText(msgs) ==
    LET kept == SelectSeq(msgs, IsConversation)
    IN  IF msgs # <<>> /\ msgs[1].role = "user" /\ HasSystem(msgs)
        THEN [kept EXCEPT ![1] = Msg("user", SystemContent(msgs) \o <<BlankLine>>
                                                \o msgs[1].content)]
        ELSE kept

\* C29 as stated: the outbound list without its bridging messages is the
\* list of the input's user and assistant messages, in the input's order.
C29_OnlyBridgesInserted ==
    llm.status = "sent"
        => WithoutBridges(llm.messages) = SelectSeq(llm.input, IsConversation)

\* C29: the outbound list without its bridging messages is the list of the
\* input's user and assistant messages in the input's order, a user message
\* in first position carrying the system text in front of its content when
\* the input has system messages.
C29_OnlyBridgesInsertedAfterSystemText ==
    llm.status = "sent"
        => WithoutBridges(llm.messages) = ConversationWithSystemText(llm.input)

\* [user, assistant, assistant, user] was sent as five messages, the third
\* one the bridge "Please continue.".
C29_Witness ==
    /\ llm.status = "sent"
    /\ RolesOf(llm.input) = <<"user", "assistant", "assistant", "user">>
    /\ Len(llm.messages) = 5
    /\ llm.messages[3] = BridgeToAssistant
    /\ WithoutBridges(llm.messages) = llm.input

(***************************************************************************)
(* Concurrent uploads of different artifacts.                              *)
(***************************************************************************)
\* The object of writer w is in the bucket: its document with the sequence
\* number the writer was given, under the key the call returned.
WriteKept(w) ==
    /\ HasKey(store, writers[w].s3_key)
    /\ JsonLoads(BodyAt(store, writers[w].s3_key))
         = [writers[w].data EXCEPT !.sequence_number = writers[w].sequence_number]

\* C30: once two concurrent upload_artifact calls for one prefix with
\* different artifact ids have both returned, their keys differ and the
\* bucket holds the document of each under its key, whatever the order of
\* their scans and writes and whatever sequence numbers they were given.
C30_DistinctIdsBothStored ==
    \A v, w \in Writers :
        (/\ v # w
         /\ writers[v].pc = "returned" /\ writers[w].pc = "returned"
         /\ SamePrefix(writers[v], writers[w])
         /\ writers[v].aid # writers[w].aid)
            => /\ writers[v].s3_key # writers[w].s3_key
               /\ WriteKept(v)
               /\ WriteKept(w)

\* Both calls returned with the same sequence number and different
\* documents, and the bucket holds the two objects.
C30_Witness ==
    /\ writers["w1"].pc = "returned"
    /\ writers["w2"].pc = "returned"
    /\ SamePrefix(writers["w1"], writers["w2"])
    /\ writers["w1"].aid # writers["w2"].aid
    /\ writers["w1"].data # writers["w2"].data
    /\ writers["w1"].sequence_number = writers["w2"].sequence_number
    /\ WriteKept("w1")
    /\ WriteKept("w2")
    /\ Cardinality(store) = 2

====
